---- MODULE Spec2Model ----
(***************************************************************************)
(* Model of the dog expense tracker bot (src/main.py): the ledger kept in  *)
(* one spreadsheet (ExpenseTracker), and the three per-user conversations  *)
(* (expense logging, settlement, edit) that python-telegram-bot dispatches *)
(* over one shared per-user session dictionary (context.user_data).        *)
(*                                                                         *)
(* Conventions of the model                                                *)
(*  - Money is counted in half dollars.  Expense totals typed by a user    *)
(*    are whole dollars (even numbers), so amount / 2 is exact; on this    *)
(*    grid "within 0.01" is equality.                                      *)
(*  - A calendar date is a day number; the clock `now` counts instants,    *)
(*    TicksPerDay of them per day, and an instant is one second of the     *)
(*    strftime('%Y%m%d_%H%M%S') stamp.                                     *)
(*  - Each user talks to the bot in one private chat, so every             *)
(*    ConversationHandler holds one state per user.                        *)
(***************************************************************************)
EXTENDS Integers, Sequences, FiniteSets, TLC

VARIABLES
    sheet,      \* the data rows of the spreadsheet, in storage order
    now,        \* datetime.now(), in instants
    logState,   \* per user: state of the expense conversation
    setState,   \* per user: state of the settlement conversation
    editState,  \* per user: state of the edit conversation
    user_data,  \* per user: context.user_data, a dictionary
    shown,      \* per user: callback buttons the bot has put on a message
    collected,  \* per user: what the current logging conversation collected
    last,       \* the handler that ran last, with its input and outcome
    view        \* the result of the last read operation that was applied

vars == <<sheet, now, logState, setState, editState, user_data, shown,
          collected, last, view>>

----------------------------------------------------------------------------
(* Bounds of the model *)

MaxRows == 2
MaxNow == 1
TicksPerDay == 2
MaxDate == 0
MaxStoredDate == 1
MaxDollars == 1
MaxStored == 3

(* Program constants *)

MabelId == 179080995
JadeId == 75259354
VaccinationInterval == 365
BloodTestInterval == 183
RecentLimit == 10
NoDate == -1
\* a Date cell of digits only: get_all_records returns it as a number, and
\* datetime.strptime of a number raises TypeError, not ValueError
NumberCell == -2
\* the day number of datetime(1900, 1, 1), the sort key get_recent_entries
\* gives a Date that does not parse; day 0 is the day the clock starts at,
\* which lies some 46000 days later
Day1900 == 0 - 46000
\* the day number of datetime.max, 9999-12-31: a timedelta added to a date
\* must not lead beyond it
LastDay == 3652058

AUTHORIZED_USERS == (MabelId :> "Mabel") @@ (JadeId :> "Jade")
Users == DOMAIN AUTHORIZED_USERS
Names == {AUTHORIZED_USERS[u] : u \in Users}

Headers == <<"Date", "Category", "Amount", "Paid By", "Description",
             "Entry Date", "User ID", "ID", "Mabel Share", "Sister Share">>

type_map ==
    [log_vet |-> <<"Vet Visit", FALSE>>,
     log_vaccination |-> <<"Vaccination", TRUE>>,
     log_blood_test |-> <<"Blood Test", TRUE>>,
     log_other_vet |-> <<"Other Vet", FALSE>>,
     log_other_expense |-> <<"Other Expense", FALSE>>]

\* type_map.get(query.data, ("Unknown", False))
type_map_get(data) ==
    IF data \in DOMAIN type_map THEN type_map[data] ELSE <<"Unknown", FALSE>>

Recurring == {"Vaccination", "Blood Test"}

Today == now \div TicksPerDay

----------------------------------------------------------------------------
(* Small helpers *)

Range(s) == {s[i] : i \in 1..Len(s)}

RECURSIVE SumSeq(_)
SumSeq(s) == IF s = <<>> THEN 0 ELSE Head(s) + SumSeq(Tail(s))

Abs(x) == IF x < 0 THEN 0 - x ELSE x

MaxOf(S) == CHOOSE x \in S : \A y \in S : y <= x

\* float("nan"): float() parses the text, and every comparison with it is
\* False; arithmetic that meets it gives it back
NaN == 0 - 1000000

\* a cell whose text float() rejects: an empty cell, a word
NotFloat == 0 - 2000000

Plus(a, b) == IF a = NaN \/ b = NaN THEN NaN ELSE a + b

Minus(a, b) == IF a = NaN \/ b = NaN THEN NaN ELSE a - b

\* a / 2
Half(a) == IF a = NaN THEN NaN ELSE a \div 2

\* a < b
Less(a, b) == a # NaN /\ b # NaN /\ a < b

RemoveAt(s, i) == SubSeq(s, 1, i - 1) \o SubSeq(s, i + 1, Len(s))

\* dict.update(new): the keys of new win
DictUpdate(d, new) == new @@ d

EmptyDict == <<>>

Has(d, k) == k \in DOMAIN d

\* dict.get(k, default)
Get(d, k, default) == IF k \in DOMAIN d THEN d[k] ELSE default

----------------------------------------------------------------------------
(* The ledger: ExpenseTracker *)

MkRow(date, category, amount, paid_by, description, entry_date, user_id, id, mabel_share, sister_share) ==
    [h \in Range(Headers) |->
        CASE h = "Date" -> date
          [] h = "Category" -> category
          [] h = "Amount" -> amount
          [] h = "Paid By" -> paid_by
          [] h = "Description" -> description
          [] h = "Entry Date" -> entry_date
          [] h = "User ID" -> user_id
          [] h = "ID" -> id
          [] h = "Mabel Share" -> mabel_share
          [] h = "Sister Share" -> sister_share]

\* f"{now:%Y%m%d_%H%M%S}_{user_id}" with an optional "_settlement"
EntryId(t, user_id, suffix) == <<t, user_id, suffix>>

\* datetime.strptime(cell, '%Y-%m-%d') succeeds
ParsesAsDate(d) == d \notin {NoDate, NumberCell}

\* dict.get(k) of an optional argument: <<>> is None, <<v>> is the value v
Opt(d, k) == IF k \in DOMAIN d THEN <<d[k]>> ELSE <<>>

\* the index of the first data row whose ID column equals entry_id, 0 if none
\* the lookup taking the ID of the same second and user for the ID asked
\* for, "_settlement" or not
FindRow_same_second(rows, entry_id) ==
    LET alike(i) == /\ rows[i]["ID"][1] = entry_id[1]
                    /\ rows[i]["ID"][2] = entry_id[2]
    IN  IF \E i \in 1..Len(rows) : alike(i)
        THEN CHOOSE i \in 1..Len(rows) :
                alike(i) /\ \A j \in 1..(i - 1) : ~alike(j)
        ELSE 0

FindRow(rows, entry_id) ==
    IF \E i \in 1..Len(rows) : rows[i]["ID"] = entry_id
    THEN CHOOSE i \in 1..Len(rows) :
            /\ rows[i]["ID"] = entry_id
            /\ \A j \in 1..(i - 1) : rows[j]["ID"] # entry_id
    ELSE 0

NextDue(category, date) ==
    IF category = "Vaccination" THEN date + VaccinationInterval
    ELSE date + BloodTestInterval

\* category.lower().replace(' ', '_')
EventType(category) ==
    IF category = "Vaccination" THEN "vaccination" ELSE "blood_test"

\* current_datetime + timedelta(days=...) raises OverflowError
Overflows(category, date) == NextDue(category, date) > LastDay

NoMail == <<>>

\* _schedule_next_reminder: the call of send_calendar_email and what it returns
schedule_next_reminder(category, current_date, mail_ok) ==
    IF Overflows(category, current_date) THEN [mail |-> NoMail, next |-> <<>>]
    ELSE
    [mail |-> <<[event_type |-> EventType(category),
                 current_date |-> current_date,
                 next_due_date |-> NextDue(category, current_date),
                 ok |-> mail_ok]>>,
     next |-> IF mail_ok THEN <<NextDue(category, current_date)>> ELSE <<>>]

\* add_expense that schedules the reminder before it knows that append_row
\* returned
add_expense_mail_first(rows, t, date, category, amount, paid_by, description, user_id, mabel_share, sister_share, store_ok, mail_ok) ==
    LET ms == IF mabel_share = <<>> THEN Half(amount) ELSE mabel_share[1]
        ss == IF mabel_share = <<>> THEN Half(amount) ELSE sister_share[1]
        row == MkRow(date, category, amount, paid_by, description, t,
                     user_id, EntryId(t, user_id, ""), ms, ss)
        rem == IF category \in Recurring
               THEN schedule_next_reminder(category, date, mail_ok)
               ELSE [mail |-> NoMail, next |-> <<>>]
        stored == store_ok /\ NaN \notin {amount, ms, ss}
    IN  [rows |-> IF stored THEN Append(rows, row) ELSE rows,
         ok |-> stored, next |-> rem.next, mail |-> rem.mail]

\* add_expense: store_ok is whether append_row returned, mail_ok whether the
\* calendar mail went out.  append_row sends the row as JSON, which has no
\* NaN: the request raises
add_expense(rows, t, date, category, amount, paid_by, description, user_id, mabel_share, sister_share, store_ok, mail_ok) ==
    IF ~store_ok \/ amount = NaN \/ NaN \in Range(mabel_share \o sister_share)
    THEN [rows |-> rows, ok |-> FALSE, next |-> <<>>, mail |-> NoMail]
    ELSE LET ms == IF mabel_share = <<>> THEN Half(amount) ELSE mabel_share[1]
             ss == IF mabel_share = <<>> THEN Half(amount) ELSE sister_share[1]
             row == MkRow(date, category, amount, paid_by, description, t,
                          user_id, EntryId(t, user_id, ""), ms, ss)
             rem == IF category \in Recurring
                    THEN schedule_next_reminder(category, date, mail_ok)
                    ELSE [mail |-> NoMail, next |-> <<>>]
         IN  [rows |-> Append(rows, row), ok |-> TRUE,
              next |-> rem.next, mail |-> rem.mail]

SettlementPaidBy(from_user, to_user) ==
    IF from_user = "Mabel" THEN "Mabel -> Jade" ELSE "Jade -> Mabel"

SettlementNote(from_user, to_user) ==
    IF from_user = "Mabel" THEN "Settlement: Mabel paid Jade"
    ELSE "Settlement: Jade paid Mabel"

\* add_settlement with the two signs exchanged
add_settlement_reversed(rows, t, from_user, to_user, amount, user_id, store_ok) ==
    IF ~store_ok \/ amount = NaN
    THEN [rows |-> rows, ok |-> FALSE]
    ELSE LET mabel_share == IF from_user = "Mabel" THEN amount ELSE 0 - amount
             sister_share == IF from_user = "Mabel" THEN 0 - amount ELSE amount
             row == MkRow(t \div TicksPerDay, "Settlement Payment", 0,
                          SettlementPaidBy(from_user, to_user),
                          SettlementNote(from_user, to_user), t, user_id,
                          EntryId(t, user_id, "_settlement"),
                          mabel_share, sister_share)
         IN  [rows |-> Append(rows, row), ok |-> TRUE]

add_settlement(rows, t, from_user, to_user, amount, user_id, store_ok) ==
    IF ~store_ok \/ amount = NaN
    THEN [rows |-> rows, ok |-> FALSE]
    ELSE LET mabel_share == IF from_user = "Mabel" THEN 0 - amount ELSE amount
             sister_share == IF from_user = "Mabel" THEN amount ELSE 0 - amount
             row == MkRow(t \div TicksPerDay, "Settlement Payment", 0,
                          SettlementPaidBy(from_user, to_user),
                          SettlementNote(from_user, to_user), t, user_id,
                          EntryId(t, user_id, "_settlement"),
                          mabel_share, sister_share)
         IN  [rows |-> Append(rows, row), ok |-> TRUE]

\* get_summary counting the shares of expense rows only
RECURSIVE summary_loop_expenses_only(_, _)
summary_loop_expenses_only(records, acc) ==
    IF records = <<>> THEN acc
    ELSE LET record == Head(records)
             amount == record["Amount"]
             paid_by == record["Paid By"]
             expense == record["Category"] # "Settlement Payment"
         IN  summary_loop_expenses_only(Tail(records),
                IF ~expense THEN acc
                ELSE [total_spent |-> Plus(acc.total_spent, amount),
                      user_payments |->
                          IF paid_by \in DOMAIN acc.user_payments
                          THEN [acc.user_payments EXCEPT ![paid_by] = Plus(@, amount)]
                          ELSE acc.user_payments,
                      user_shares |->
                          [acc.user_shares EXCEPT
                              !["Mabel"] = Plus(@, record["Mabel Share"]),
                              !["Jade"] = Plus(@, record["Sister Share"])]])

\* get_summary adding the Amount of a row before it has parsed the shares
RECURSIVE summary_loop_partial(_, _)
summary_loop_partial(records, acc) ==
    IF records = <<>> THEN acc
    ELSE LET record == Head(records)
             amount == record["Amount"]
             paid_by == record["Paid By"]
             expense == record["Category"] # "Settlement Payment"
             total == IF expense THEN Plus(acc.total_spent, amount)
                      ELSE acc.total_spent
             payments ==
                 IF expense /\ paid_by \in DOMAIN acc.user_payments
                 THEN [acc.user_payments EXCEPT ![paid_by] = Plus(@, amount)]
                 ELSE acc.user_payments
             shares ==
                 [acc.user_shares EXCEPT
                     !["Mabel"] = Plus(@, record["Mabel Share"]),
                     !["Jade"] = Plus(@, record["Sister Share"])]
         IN  summary_loop_partial(Tail(records),
                IF amount = NotFloat THEN acc
                ELSE IF NotFloat \in {record["Mabel Share"],
                                      record["Sister Share"]}
                THEN [total_spent |-> total, user_payments |-> payments,
                      user_shares |-> acc.user_shares]
                ELSE [total_spent |-> total, user_payments |-> payments,
                      user_shares |-> shares])

\* get_summary: one pass over the records, accumulating; float() of the
\* Amount and of both shares comes first, and a ValueError skips the record
RECURSIVE summary_loop(_, _)
summary_loop(records, acc) ==
    IF records = <<>> THEN acc
    ELSE LET record == Head(records)
             amount == record["Amount"]
             paid_by == record["Paid By"]
             expense == record["Category"] # "Settlement Payment"
             parsed == NotFloat \notin {amount, record["Mabel Share"],
                                        record["Sister Share"]}
             total == IF expense THEN Plus(acc.total_spent, amount)
                      ELSE acc.total_spent
             payments ==
                 IF expense /\ paid_by \in DOMAIN acc.user_payments
                 THEN [acc.user_payments EXCEPT ![paid_by] = Plus(@, amount)]
                 ELSE acc.user_payments
             shares ==
                 [acc.user_shares EXCEPT
                     !["Mabel"] = Plus(@, record["Mabel Share"]),
                     !["Jade"] = Plus(@, record["Sister Share"])]
         IN  summary_loop(Tail(records),
                IF ~parsed THEN acc
                ELSE [total_spent |-> total, user_payments |-> payments,
                      user_shares |-> shares])

get_summary(rows) ==
    LET zero == [n \in Names |-> 0]
        acc == summary_loop(rows, [total_spent |-> 0, user_payments |-> zero,
                                   user_shares |-> zero])
    IN  [total_spent |-> acc.total_spent,
         user_payments |-> acc.user_payments,
         user_shares |-> acc.user_shares,
         balances |-> [n \in Names |->
                          Minus(acc.user_payments[n], acc.user_shares[n])]]

\* the scan keeping the date of the row stored last, not the latest date
RECURSIVE latest_loop_last_stored(_, _, _)
latest_loop_last_stored(records, category, latest) ==
    IF records = <<>> THEN latest
    ELSE LET record == Head(records)
             date_obj == record["Date"]
             take == /\ record["Category"] = category
                     /\ ParsesAsDate(date_obj)
         IN  latest_loop_last_stored(Tail(records), category,
                                     IF take THEN <<date_obj>> ELSE latest)

\* get_next_due_dates: the scan keeps the latest parseable date per category
RECURSIVE latest_loop(_, _, _)
latest_loop(records, category, latest) ==
    IF records = <<>> THEN latest
    ELSE LET record == Head(records)
             date_obj == record["Date"]
             take == /\ record["Category"] = category
                     /\ ParsesAsDate(date_obj)
                     /\ (latest = <<>> \/ date_obj > latest[1])
         IN  latest_loop(Tail(records), category,
                         IF take THEN <<date_obj>> ELSE latest)

DueEntry(latest, interval, t) ==
    [last_date |-> latest,
     next_date |-> latest + interval,
     days_until |-> ((latest + interval) * TicksPerDay - t) \div TicksPerDay]

get_next_due_dates(rows, t) ==
    LET latest_vaccination == latest_loop(rows, "Vaccination", <<>>)
        latest_blood_test == latest_loop(rows, "Blood Test", <<>>)
        vax == IF latest_vaccination # <<>>
               THEN "vaccination" :> DueEntry(latest_vaccination[1],
                                              VaccinationInterval, t)
               ELSE EmptyDict
        blood == IF latest_blood_test # <<>>
                 THEN "blood_test" :> DueEntry(latest_blood_test[1],
                                               BloodTestInterval, t)
                 ELSE EmptyDict
        raises == \/ \E i \in 1..Len(rows) :
                        /\ rows[i]["Category"] \in Recurring
                        /\ rows[i]["Date"] = NumberCell
                  \/ /\ latest_vaccination # <<>>
                     /\ Overflows("Vaccination", latest_vaccination[1])
                  \/ /\ latest_blood_test # <<>>
                     /\ Overflows("Blood Test", latest_blood_test[1])
    IN  IF raises THEN EmptyDict ELSE vax @@ blood

\* get_reminders_status: per category, whether the line says "overdue"
get_reminders_status(rows, t) ==
    LET next_dates == get_next_due_dates(rows, t)
    IN  [key \in DOMAIN next_dates |->
            IF next_dates[key].days_until > 0 THEN "due" ELSE "overdue"]

\* get_recent_entries: a stable sort by Date, latest first, cut to limit;
\* a date that does not parse sorts as datetime(1900, 1, 1)
get_date_for_sorting(record) ==
    IF ParsesAsDate(record["Date"]) THEN record["Date"] ELSE Day1900

RECURSIVE insert_sorted(_, _)
insert_sorted(sorted, record) ==
    IF sorted = <<>> THEN <<record>>
    ELSE IF get_date_for_sorting(Head(sorted)) >= get_date_for_sorting(record)
         THEN <<Head(sorted)>> \o insert_sorted(Tail(sorted), record)
         ELSE <<record>> \o sorted

RECURSIVE sort_loop(_, _)
sort_loop(records, sorted) ==
    IF records = <<>> THEN sorted
    ELSE sort_loop(Tail(records), insert_sorted(sorted, Head(records)))

get_recent_entries(rows, limit) ==
    LET sorted_records == sort_loop(rows, <<>>)
    IN  IF \E i \in 1..Len(rows) : rows[i]["Date"] = NumberCell THEN <<>>
        ELSE SubSeq(sorted_records, 1,
               IF Len(sorted_records) < limit THEN Len(sorted_records)
               ELSE limit)

\* get_entry_by_id: the first record with that ID, or the empty dictionary
get_entry_by_id(rows, entry_id) ==
    IF FindRow(rows, entry_id) = 0 THEN EmptyDict
    ELSE rows[FindRow(rows, entry_id)]

\* update_entry: updates is the dictionary in insertion order, a sequence of
\* <<field, value>>; fail = j > 0 means the j-th item's update_cell raises
\* update_entry giving up at a field name that is no header
RECURSIVE update_loop_strict(_, _, _, _, _)
update_loop_strict(rows, target_row, updates, j, fail) ==
    IF j > Len(updates) THEN [rows |-> rows, ok |-> TRUE]
    ELSE LET field == updates[j][1]
             value == updates[j][2]
         IN  IF field \notin Range(Headers) \/ j = fail
             THEN [rows |-> rows, ok |-> FALSE]
             ELSE update_loop_strict(
                     [rows EXCEPT ![target_row][field] = value],
                     target_row, updates, j + 1, fail)

RECURSIVE update_loop(_, _, _, _, _)
update_loop(rows, target_row, updates, j, fail) ==
    IF j > Len(updates) THEN [rows |-> rows, ok |-> TRUE]
    ELSE LET field == updates[j][1]
             value == updates[j][2]
         IN  IF field \in Range(Headers)
             THEN IF j = fail
                  THEN [rows |-> rows, ok |-> FALSE]
                  ELSE update_loop(
                          [rows EXCEPT ![target_row][field] = value],
                          target_row, updates, j + 1, fail)
             ELSE update_loop(rows, target_row, updates, j + 1, fail)

\* update_entry writing the cells of the last row that carries the ID
update_entry_last_match(rows, entry_id, updates, fail) ==
    LET matches == {i \in 1..Len(rows) : rows[i]["ID"] = entry_id}
    IN  IF matches = {} THEN [rows |-> rows, ok |-> FALSE]
        ELSE update_loop(rows, MaxOf(matches), updates, 1, fail)

\* update_entry counting the rows from 1 where the sheet's first row is the
\* header: the cells written are those of the row above the one found (no
\* data row when the first one is found)
update_entry_row_above(rows, entry_id, updates, fail) ==
    LET target_row == FindRow(rows, entry_id)
    IN  IF target_row = 0 THEN [rows |-> rows, ok |-> FALSE]
        ELSE IF target_row = 1 THEN [rows |-> rows, ok |-> fail = 0]
        ELSE update_loop(rows, target_row - 1, updates, 1, fail)

update_entry(rows, entry_id, updates, fail) ==
    LET target_row == FindRow(rows, entry_id)
    IN  IF target_row = 0 THEN [rows |-> rows, ok |-> FALSE]
        ELSE update_loop(rows, target_row, updates, 1, fail)

\* delete_entry: store_ok is whether delete_rows returned
delete_entry(rows, entry_id, store_ok) ==
    LET i == FindRow(rows, entry_id)
    IN  IF i = 0 \/ ~store_ok THEN [rows |-> rows, ok |-> FALSE]
        ELSE [rows |-> RemoveAt(rows, i), ok |-> TRUE]

----------------------------------------------------------------------------
(* Messages a user can type.  k is the shape of the text, n the number or  *)
(* day it spells, s the text as a description.                             *)

TodayText == [k |-> "today", n |-> 0, s |-> "today"]
DateText(d) == [k |-> "date", n |-> d, s |-> "a date"]
NumText(x) == [k |-> "num", n |-> x, s |-> "a number"]
WordText(w) == [k |-> "word", n |-> 0, s |-> w]
BlankText == [k |-> "blank", n |-> 0, s |-> ""]
NanText == [k |-> "num", n |-> NaN, s |-> "nan"]

Words == {"chow"}

DateTexts ==
    {TodayText, WordText("chow")}
    \cup {DateText(d) : d \in (0..MaxDate) \cup {LastDay}}
AmountTexts ==
    {WordText("chow"), NanText}
    \cup {NumText(2 * d) : d \in (0 - 1)..MaxDollars}
ShareTexts ==
    {WordText("chow"), NanText}
    \cup {NumText(x) : x \in (0 - 1)..(2 * MaxDollars + 1)}
DescriptionTexts == {BlankText} \cup {WordText(w) : w \in Words}

\* datetime.strptime(text, '%Y-%m-%d'), or 'today'; NoDate when it raises
ParseDate(text, t) ==
    IF text.k = "today" THEN t \div TicksPerDay
    ELSE IF text.k = "date" THEN text.n
    ELSE NoDate

\* float(text) succeeds
ParsesAsFloat(text) == text.k = "num"

----------------------------------------------------------------------------
(* Conversation states *)

END == "END"
DATE == "DATE"
AMOUNT == "AMOUNT"
PAYER == "PAYER"
SPLIT == "SPLIT"
DESCRIPTION == "DESCRIPTION"
EDIT_CHOICE == "EDIT_CHOICE"
EDIT_VALUE == "EDIT_VALUE"
EDIT_PAYER == "EDIT_PAYER"
EDIT_SPLIT == "EDIT_SPLIT"
SETTLEMENT_AMOUNT == "SETTLEMENT_AMOUNT"

Other(name) == IF name = "Mabel" THEN "Jade" ELSE "Mabel"

\* What a handler did: "done" it ran to its end, "reprompt" it rejected the
\* input and kept the state, "failed" the ledger operation returned False,
\* "raised" it raised (the dispatcher keeps the conversation state),
\* "error" it caught its own exception.
Step(op, u, data, num, outcome, mail) ==
    [op |-> op, user |-> u, data |-> data, num |-> num,
     outcome |-> outcome, mail |-> mail]

\* The outcome of a handler: the new session dictionary, the state it
\* returns ("" for None: the state is kept), the new rows
Out(ud, state, rows, outcome, mail) ==
    [ud |-> ud, state |-> state, rows |-> rows, outcome |-> outcome,
     mail |-> mail]

Keep == ""

NewState(old, out) ==
    IF out.state = Keep \/ out.outcome = "raised" THEN old ELSE out.state

\* A text message goes to the first conversation, in the order settlement,
\* expense, edit, whose current state has a text handler
TextToLog(u) == setState[u] = END
TextToEdit(u) == setState[u] = END /\ logState[u] \in {END, PAYER}

----------------------------------------------------------------------------
(* The expense logging conversation *)

start_expense_logging_out(ud, rows, data) ==
    LET category == type_map_get(data)[1]
        is_tracking == type_map_get(data)[2]
        ud1 == DictUpdate(ud, ("category" :> category)
                              @@ ("is_tracking" :> is_tracking))
        ud2 == IF is_tracking THEN DictUpdate(ud1, "amount" :> 0) ELSE ud1
    IN  Out(ud2, DATE, rows, "done", NoMail)

\* handle_date without its is_tracking branch: every entry is asked an amount
handle_date_asks_amount(ud, rows, text, t) ==
    LET date == ParseDate(text, t)
        ud1 == DictUpdate(ud, "date" :> date)
    IN  IF date = NoDate THEN Out(ud, DATE, rows, "reprompt", NoMail)
        ELSE IF ~Has(ud1, "category") THEN Out(ud1, Keep, rows, "raised", NoMail)
        ELSE Out(ud1, AMOUNT, rows, "done", NoMail)

handle_date_out(ud, rows, text, t) ==
    LET date == ParseDate(text, t)
        ud1 == DictUpdate(ud, "date" :> date)
    IN  IF date = NoDate THEN Out(ud, DATE, rows, "reprompt", NoMail)
        ELSE IF ~Has(ud1, "category") THEN Out(ud1, Keep, rows, "raised", NoMail)
        ELSE IF Get(ud1, "is_tracking", FALSE)
             THEN Out(ud1, DESCRIPTION, rows, "done", NoMail)
             ELSE Out(ud1, AMOUNT, rows, "done", NoMail)

handle_amount_out(ud, rows, text) ==
    IF ~ParsesAsFloat(text) \/ Less(text.n, 0) \/ text.n = 0
    THEN Out(ud, AMOUNT, rows, "reprompt", NoMail)
    ELSE Out(DictUpdate(ud, "amount" :> text.n), PAYER, rows, "done", NoMail)

\* a variant of handle_payer that goes on to the description
handle_payer_skips_split(ud, rows, payer) ==
    LET ud1 == DictUpdate(ud, "payer" :> payer)
    IN  IF ~Has(ud1, "amount") THEN Out(ud1, Keep, rows, "raised", NoMail)
        ELSE Out(ud1, DESCRIPTION, rows, "done", NoMail)

handle_payer_out(ud, rows, payer) ==
    LET ud1 == DictUpdate(ud, "payer" :> payer)
    IN  IF ~Has(ud1, "amount") THEN Out(ud1, Keep, rows, "raised", NoMail)
        ELSE Out(ud1, SPLIT, rows, "done", NoMail)

handle_split_out(ud, rows, data) ==
    IF ~Has(ud, "amount") THEN Out(ud, Keep, rows, "raised", NoMail)
    ELSE IF data = "split_equal"
    THEN LET amount == ud["amount"]
             ud1 == DictUpdate(ud, ("mabel_share" :> Half(amount))
                                   @@ ("sister_share" :> Half(amount)))
         IN  IF ~Has(ud1, "payer") THEN Out(ud1, Keep, rows, "raised", NoMail)
             ELSE Out(ud1, DESCRIPTION, rows, "done", NoMail)
    ELSE IF ~Has(ud, "payer") THEN Out(ud, Keep, rows, "raised", NoMail)
         ELSE Out(DictUpdate(ud, "other_person" :> Other(ud["payer"])),
                  SPLIT, rows, "done", NoMail)

\* handle_custom_split with the two shares given to the wrong participants
handle_custom_split_swapped(ud, rows, text) ==
    IF ~Has(ud, "amount") THEN Out(ud, Keep, rows, "raised", NoMail)
    ELSE IF ~ParsesAsFloat(text) THEN Out(ud, SPLIT, rows, "reprompt", NoMail)
    ELSE LET other_amount == text.n
             total == ud["amount"]
             payer_amount == Minus(total, other_amount)
         IN  IF Less(other_amount, 0) \/ Less(total, other_amount)
             THEN Out(ud, SPLIT, rows, "reprompt", NoMail)
             ELSE IF ~Has(ud, "payer")
             THEN Out(ud, Keep, rows, "raised", NoMail)
             ELSE IF ud["payer"] = "Jade"
             THEN Out(DictUpdate(ud, ("mabel_share" :> payer_amount)
                                     @@ ("sister_share" :> other_amount)),
                      DESCRIPTION, rows, "done", NoMail)
             ELSE Out(DictUpdate(ud, ("mabel_share" :> other_amount)
                                     @@ ("sister_share" :> payer_amount)),
                      DESCRIPTION, rows, "done", NoMail)

handle_custom_split_out(ud, rows, text) ==
    IF ~Has(ud, "amount") THEN Out(ud, Keep, rows, "raised", NoMail)
    ELSE IF ~ParsesAsFloat(text) THEN Out(ud, SPLIT, rows, "reprompt", NoMail)
    ELSE LET other_amount == text.n
             total == ud["amount"]
             payer_amount == Minus(total, other_amount)
         IN  IF Less(other_amount, 0) \/ Less(total, other_amount)
             THEN Out(ud, SPLIT, rows, "reprompt", NoMail)
             ELSE IF ~Has(ud, "payer")
             THEN Out(ud, Keep, rows, "raised", NoMail)
             ELSE IF ud["payer"] = "Mabel"
             THEN Out(DictUpdate(ud, ("mabel_share" :> payer_amount)
                                     @@ ("sister_share" :> other_amount)),
                      DESCRIPTION, rows, "done", NoMail)
             ELSE Out(DictUpdate(ud, ("mabel_share" :> other_amount)
                                     @@ ("sister_share" :> payer_amount)),
                      DESCRIPTION, rows, "done", NoMail)

\* handle_description reading the session with dict.get and defaults, so a
\* session that lost its fields is saved all the same
handle_description_defaults(ud, rows, text, user_id, t, store_ok, mail_ok) ==
    LET description == text.s
    IN  IF description = "" THEN Out(ud, DESCRIPTION, rows, "reprompt", NoMail)
        ELSE LET r == add_expense(rows, t, Get(ud, "date", t \div TicksPerDay),
                                  Get(ud, "category", "Other Expense"),
                                  Get(ud, "amount", 0), Get(ud, "payer", "N/A"),
                                  description, user_id,
                                  Opt(ud, "mabel_share"),
                                  Opt(ud, "sister_share"), store_ok, mail_ok)
             IN  Out(EmptyDict, END, r.rows,
                     IF r.ok THEN "done" ELSE "failed", r.mail)

handle_description_out(ud, rows, text, user_id, t, store_ok, mail_ok) ==
    LET description == text.s
    IN  IF description = "" THEN Out(ud, DESCRIPTION, rows, "reprompt", NoMail)
        ELSE IF ~({"date", "category", "amount"} \subseteq DOMAIN ud)
        THEN Out(ud, Keep, rows, "raised", NoMail)
        ELSE LET r == add_expense(rows, t, ud["date"], ud["category"],
                                  ud["amount"], Get(ud, "payer", "N/A"),
                                  description, user_id,
                                  Opt(ud, "mabel_share"),
                                  Opt(ud, "sister_share"), store_ok, mail_ok)
             IN  Out(EmptyDict, END, r.rows,
                     IF r.ok THEN "done" ELSE "failed", r.mail)

\* what the current logging conversation has collected so far
Collect(u, out, keys) ==
    IF out.outcome = "done"
    THEN [k \in (DOMAIN collected[u]) \cup keys |->
             IF k \in keys THEN out.ud[k] ELSE collected[u][k]]
    ELSE collected[u]

LogStep(u, out, op, data, num, keys) ==
    /\ user_data' = [user_data EXCEPT ![u] = out.ud]
    /\ logState' = [logState EXCEPT ![u] = NewState(@, out)]
    /\ sheet' = out.rows
    /\ collected' = [collected EXCEPT ![u] =
                        IF NewState(logState[u], out) = END THEN EmptyDict
                        ELSE Collect(u, out, keys)]
    /\ last' = Step(op, u, data, num, out.outcome, out.mail)
    /\ UNCHANGED <<now, setState, editState, shown, view>>

\* callback data that matches ^log_: buttons of the menu, and data that no
\* button of the menu carries
LogButtons == {"log_vet", "log_vaccination", "log_grooming"}

start_expense_logging(u) ==
    \E data \in LogButtons :
        /\ logState[u] = END
        /\ Len(sheet) < MaxRows
        /\ user_data' = [user_data EXCEPT ![u] =
                            start_expense_logging_out(@, sheet, data).ud]
        /\ logState' = [logState EXCEPT ![u] = DATE]
        /\ collected' = [collected EXCEPT ![u] =
                            start_expense_logging_out(EmptyDict, sheet, data).ud]
        /\ last' = Step("start_expense_logging", u, data, 0, "done", NoMail)
        /\ UNCHANGED <<sheet, now, setState, editState, shown, view>>

handle_date(u) ==
    \E text \in DateTexts :
        /\ TextToLog(u) /\ logState[u] = DATE
        /\ LogStep(u, handle_date_out(user_data[u], sheet, text, now),
                   "handle_date", "", 0, {"date"})

handle_amount(u) ==
    \E text \in AmountTexts :
        /\ TextToLog(u) /\ logState[u] = AMOUNT
        /\ LogStep(u, handle_amount_out(user_data[u], sheet, text),
                   "handle_amount", "", 0, {"amount"})

handle_payer(u) ==
    \E payer \in Names :
        /\ logState[u] = PAYER
        /\ LogStep(u, handle_payer_out(user_data[u], sheet, payer),
                   "handle_payer", payer, 0, {"payer"})

handle_split(u) ==
    \E data \in {"split_equal", "split_custom"} :
        /\ logState[u] = SPLIT
        /\ LogStep(u, handle_split_out(user_data[u], sheet, data),
                   "handle_split", data, 0,
                   IF data = "split_equal"
                   THEN {"mabel_share", "sister_share"} ELSE {})

handle_custom_split(u) ==
    \E text \in ShareTexts :
        /\ TextToLog(u) /\ logState[u] = SPLIT
        /\ LogStep(u, handle_custom_split_out(user_data[u], sheet, text),
                   "handle_custom_split", "", text.n,
                   {"mabel_share", "sister_share"})

handle_description(u) ==
    \E text \in DescriptionTexts, store_ok \in BOOLEAN, mail_ok \in BOOLEAN :
        /\ TextToLog(u) /\ logState[u] = DESCRIPTION
        /\ Len(sheet) < MaxRows
        /\ LogStep(u, handle_description_out(user_data[u], sheet, text, u,
                                             now, store_ok, mail_ok),
                   "handle_description", "", 0, {})

----------------------------------------------------------------------------
(* Menu buttons *)

\* show_menu: /menu is taken by the application's CommandHandler, which is
\* registered before the conversations; it changes nothing
show_menu(u) ==
    /\ last' = Step("show_menu", u, "", 0, "done", NoMail)
    /\ UNCHANGED <<sheet, now, logState, setState, editState, user_data,
                   shown, collected, view>>

\* handle_back_to_menu, as a fallback of a conversation or as the
\* application's handler: it returns None either way
handle_back_to_menu(u) ==
    /\ user_data' = [user_data EXCEPT ![u] = EmptyDict]
    /\ last' = Step("handle_back_to_menu", u, "back_to_menu", 0, "done", NoMail)
    /\ UNCHANGED <<sheet, now, logState, setState, editState, shown,
                   collected, view>>

\* the settlement button show_summary offers
SettleButton(rows) ==
    LET mabel_balance == get_summary(rows).balances["Mabel"]
    IN  IF mabel_balance = 0 THEN {}
        ELSE IF Less(0, mabel_balance) THEN {"settle_jade_mabel"}
        ELSE {"settle_mabel_jade"}

show_summary(u) ==
    /\ shown' = [shown EXCEPT ![u].buttons = @ \cup SettleButton(sheet)]
    /\ last' = Step("show_summary", u, "view_summary", 0, "done", NoMail)
    /\ UNCHANGED <<sheet, now, logState, setState, editState, user_data,
                   collected, view>>

\* show_edit_menu: one button per recent entry; in EDIT_CHOICE the press of
\* "edit_log" is taken by handle_edit_field_choice instead
show_edit_menu(u) ==
    /\ editState[u] # EDIT_CHOICE
    /\ shown' = [shown EXCEPT ![u].ids =
                    @ \cup {e["ID"] : e \in Range(get_recent_entries(sheet, RecentLimit))}]
    /\ last' = Step("show_edit_menu", u, "edit_log", 0, "done", NoMail)
    /\ UNCHANGED <<sheet, now, logState, setState, editState, user_data,
                   collected, view>>

----------------------------------------------------------------------------
(* The settlement conversation *)

handle_settlement_start_out(ud, rows, data) ==
    LET from_user == IF data = "settle_jade_mabel" THEN "Jade" ELSE "Mabel"
        to_user == Other(from_user)
    IN  Out(DictUpdate(ud, ("settlement_from" :> from_user)
                           @@ ("settlement_to" :> to_user)),
            SETTLEMENT_AMOUNT, rows, "done", NoMail)

\* a variant of handle_settlement_amount that keeps the session and asks
\* again when add_settlement fails
handle_settlement_amount_again(ud, rows, text, user_id, t, store_ok) ==
    IF ~ParsesAsFloat(text) \/ Less(text.n, 0) \/ text.n = 0
    THEN Out(ud, SETTLEMENT_AMOUNT, rows, "reprompt", NoMail)
    ELSE IF ~({"settlement_from", "settlement_to"} \subseteq DOMAIN ud)
    THEN Out(ud, Keep, rows, "raised", NoMail)
    ELSE LET r == add_settlement(rows, t, ud["settlement_from"],
                                 ud["settlement_to"], text.n, user_id,
                                 store_ok)
         IN  IF r.ok THEN Out(EmptyDict, END, r.rows, "done", NoMail)
             ELSE Out(ud, SETTLEMENT_AMOUNT, r.rows, "failed", NoMail)

handle_settlement_amount_out(ud, rows, text, user_id, t, store_ok) ==
    IF ~ParsesAsFloat(text) \/ Less(text.n, 0) \/ text.n = 0
    THEN Out(ud, SETTLEMENT_AMOUNT, rows, "reprompt", NoMail)
    ELSE IF ~({"settlement_from", "settlement_to"} \subseteq DOMAIN ud)
    THEN Out(ud, Keep, rows, "raised", NoMail)
    ELSE LET r == add_settlement(rows, t, ud["settlement_from"],
                                 ud["settlement_to"], text.n, user_id,
                                 store_ok)
         IN  Out(EmptyDict, END, r.rows,
                 IF r.ok THEN "done" ELSE "failed", NoMail)

SetStep(u, out, op, data, num) ==
    /\ user_data' = [user_data EXCEPT ![u] = out.ud]
    /\ setState' = [setState EXCEPT ![u] = NewState(@, out)]
    /\ sheet' = out.rows
    /\ last' = Step(op, u, data, num, out.outcome, out.mail)
    /\ UNCHANGED <<now, logState, editState, shown, collected, view>>

handle_settlement_start(u) ==
    \E data \in shown[u].buttons \cap {"settle_jade_mabel", "settle_mabel_jade"} :
        SetStep(u, handle_settlement_start_out(user_data[u], sheet, data),
                "handle_settlement_start", data, 0)

handle_settlement_amount(u) ==
    \E text \in ShareTexts, store_ok \in BOOLEAN :
        /\ setState[u] = SETTLEMENT_AMOUNT
        /\ Len(sheet) < MaxRows
        /\ SetStep(u, handle_settlement_amount_out(user_data[u], sheet, text,
                                                   u, now, store_ok),
                   "handle_settlement_amount", "", text.n)

----------------------------------------------------------------------------
(* The edit conversation *)

\* the field buttons handle_edit_selection puts under an entry
FieldButtons(category) ==
    IF category = "Settlement Payment" THEN {"delete_confirm"}
    ELSE {"edit_date", "edit_description", "delete_confirm"}
         \cup (IF category \notin Recurring
               THEN {"edit_amount", "edit_payer"} ELSE {})

\* the session keeps the entry under editing_entry; its Category and its
\* Description are the cells a handler reads back, and the model keeps those
EntryKept(entry) == [h \in {"Category", "Description"} |-> entry[h]]

handle_edit_selection_out(ud, rows, entry_id) ==
    LET entry == get_entry_by_id(rows, entry_id)
    IN  IF DOMAIN entry = {} THEN Out(ud, END, rows, "failed", NoMail)
        ELSE Out(DictUpdate(ud, ("editing_id" :> entry_id)
                                @@ ("editing_entry" :> EntryKept(entry))),
                 EDIT_CHOICE, rows, "done", NoMail)

\* the dictionary of the amount edits, in insertion order
AmountUpdates(amount, payer, mabel_share, sister_share) ==
    <<<<"Amount", amount>>, <<"Paid By", payer>>,
      <<"Mabel Share", mabel_share>>, <<"Sister Share", sister_share>>>>

\* a handler that ends with the outcome of one update_entry call
Updated(ud, rows, updates, fail, mail) ==
    IF ~Has(ud, "editing_id") THEN Out(ud, Keep, rows, "raised", NoMail)
    ELSE LET r == update_entry(rows, ud["editing_id"], updates, fail)
         IN  Out(EmptyDict, END, r.rows,
                 IF r.ok THEN "done" ELSE "failed",
                 IF r.ok THEN mail ELSE NoMail)

handle_edit_field_choice_out(ud, rows, data, fail) ==
    IF data = "delete_confirm"
    THEN IF ~Has(ud, "editing_id") THEN Out(ud, Keep, rows, "raised", NoMail)
         ELSE LET r == delete_entry(rows, ud["editing_id"], fail = 0)
              IN  Out(EmptyDict, END, r.rows,
                      IF r.ok THEN "done" ELSE "failed", NoMail)
    ELSE IF data \in {"new_payer_Mabel", "new_payer_Jade"}
    THEN Updated(ud, rows,
                 <<<<"Paid By",
                     IF data = "new_payer_Mabel" THEN "Mabel" ELSE "Jade">>>>,
                 fail, NoMail)
    ELSE LET field == CASE data = "edit_date" -> "date"
                        [] data = "edit_description" -> "description"
                        [] data = "edit_amount" -> "amount"
                        [] data = "edit_payer" -> "payer"
                        [] OTHER -> "log"
             ud1 == DictUpdate(ud, "editing_field" :> field)
         IN  IF field = "payer" THEN Out(ud1, EDIT_CHOICE, rows, "done", NoMail)
             ELSE Out(ud1, EDIT_VALUE, rows, "done", NoMail)

\* the calendar mail handle_edit_value_input sends after a date edit
DateEditMail(ud, new_value, mail_ok) ==
    LET category == Get(Get(ud, "editing_entry", EmptyDict), "Category", "")
    IN  IF category \in Recurring
        THEN schedule_next_reminder(category, new_value, mail_ok).mail
        ELSE NoMail

handle_edit_value_input_out(ud, rows, text, t, fail, mail_ok) ==
    IF ~Has(ud, "editing_field") THEN Out(ud, Keep, rows, "raised", NoMail)
    ELSE LET field == ud["editing_field"]
         IN  IF field = "date"
             THEN LET new_value == ParseDate(text, t)
                  IN  IF new_value = NoDate
                      THEN Out(ud, EDIT_VALUE, rows, "reprompt", NoMail)
                      ELSE IF ~Has(ud, "editing_id")
                      THEN Out(EmptyDict, END, rows, "error", NoMail)
                      ELSE Updated(ud, rows, <<<<"Date", new_value>>>>, fail,
                                   DateEditMail(ud, new_value, mail_ok))
             ELSE IF field = "description"
             THEN IF text.s = ""
                  THEN Out(ud, EDIT_VALUE, rows, "reprompt", NoMail)
                  ELSE IF ~Has(ud, "editing_id")
                  THEN Out(EmptyDict, END, rows, "error", NoMail)
                  ELSE Updated(ud, rows, <<<<"Description", text.s>>>>, fail,
                               NoMail)
             ELSE IF field = "amount"
             THEN IF ~ParsesAsFloat(text) \/ Less(text.n, 0)
                  THEN Out(ud, EDIT_VALUE, rows, "reprompt", NoMail)
                  ELSE Out(DictUpdate(ud, "new_amount" :> text.n), EDIT_PAYER,
                           rows, "done", NoMail)
             ELSE Out(EmptyDict, END, rows, "error", NoMail)

handle_edit_payer_selection_out(ud, rows, data, fail) ==
    IF data \in {"new_payer_Mabel", "new_payer_Jade"}
    THEN Updated(ud, rows,
                 <<<<"Paid By",
                     IF data = "new_payer_Mabel" THEN "Mabel" ELSE "Jade">>>>,
                 fail, NoMail)
    ELSE LET new_payer == IF data = "edit_amount_payer_Mabel" THEN "Mabel"
                          ELSE "Jade"
             ud1 == DictUpdate(ud, "new_payer" :> new_payer)
         IN  IF ~Has(ud1, "new_amount")
             THEN Out(ud1, Keep, rows, "raised", NoMail)
             ELSE IF ud1["new_amount"] = 0
             THEN Updated(ud1, rows, AmountUpdates(0, new_payer, 0, 0), fail,
                          NoMail)
             ELSE Out(ud1, EDIT_SPLIT, rows, "done", NoMail)

\* a variant of the equal split of an amount edit that leaves the whole
\* amount with Mabel
handle_edit_split_selection_unequal(ud, rows, data, fail) ==
    IF ~({"new_amount", "new_payer"} \subseteq DOMAIN ud)
    THEN Out(ud, Keep, rows, "raised", NoMail)
    ELSE LET amount == ud["new_amount"]
             payer == ud["new_payer"]
         IN  IF data = "edit_split_equal"
             THEN Updated(ud, rows,
                          AmountUpdates(amount, payer, amount, 0), fail,
                          NoMail)
             ELSE Out(DictUpdate(ud, "edit_other_person" :> Other(payer)),
                      EDIT_SPLIT, rows, "done", NoMail)

handle_edit_split_selection_out(ud, rows, data, fail) ==
    IF ~({"new_amount", "new_payer"} \subseteq DOMAIN ud)
    THEN Out(ud, Keep, rows, "raised", NoMail)
    ELSE LET amount == ud["new_amount"]
             payer == ud["new_payer"]
         IN  IF data = "edit_split_equal"
             THEN Updated(ud, rows,
                          AmountUpdates(amount, payer, Half(amount),
                                        Half(amount)), fail, NoMail)
             ELSE Out(DictUpdate(ud, "edit_other_person" :> Other(payer)),
                      EDIT_SPLIT, rows, "done", NoMail)

\* a variant of the custom split of an amount edit that rejects a share of 0
handle_edit_custom_split_input_positive(ud, rows, text, fail) ==
    IF ~Has(ud, "new_amount") THEN Out(ud, Keep, rows, "raised", NoMail)
    ELSE IF ~ParsesAsFloat(text)
    THEN Out(ud, EDIT_SPLIT, rows, "reprompt", NoMail)
    ELSE LET other_amount == text.n
             total_amount == ud["new_amount"]
             payer_amount == Minus(total_amount, other_amount)
         IN  IF ~Less(0, other_amount) \/ Less(total_amount, other_amount)
             THEN Out(ud, EDIT_SPLIT, rows, "reprompt", NoMail)
             ELSE IF ~({"new_payer", "edit_other_person"} \subseteq DOMAIN ud)
             THEN Out(ud, Keep, rows, "raised", NoMail)
             ELSE IF ud["new_payer"] = "Mabel"
             THEN Updated(ud, rows,
                          AmountUpdates(total_amount, "Mabel", payer_amount,
                                        other_amount), fail, NoMail)
             ELSE Updated(ud, rows,
                          AmountUpdates(total_amount, ud["new_payer"],
                                        other_amount, payer_amount), fail,
                          NoMail)

handle_edit_custom_split_input_out(ud, rows, text, fail) ==
    IF ~Has(ud, "new_amount") THEN Out(ud, Keep, rows, "raised", NoMail)
    ELSE IF ~ParsesAsFloat(text)
    THEN Out(ud, EDIT_SPLIT, rows, "reprompt", NoMail)
    ELSE LET other_amount == text.n
             total_amount == ud["new_amount"]
             payer_amount == Minus(total_amount, other_amount)
         IN  IF Less(other_amount, 0) \/ Less(total_amount, other_amount)
             THEN Out(ud, EDIT_SPLIT, rows, "reprompt", NoMail)
             ELSE IF ~({"new_payer", "edit_other_person"} \subseteq DOMAIN ud)
             THEN Out(ud, Keep, rows, "raised", NoMail)
             ELSE IF ud["new_payer"] = "Mabel"
             THEN Updated(ud, rows,
                          AmountUpdates(total_amount, "Mabel", payer_amount,
                                        other_amount), fail, NoMail)
             ELSE Updated(ud, rows,
                          AmountUpdates(total_amount, ud["new_payer"],
                                        other_amount, payer_amount), fail,
                          NoMail)

EditStep(u, out, op, data, num, buttons) ==
    /\ user_data' = [user_data EXCEPT ![u] = out.ud]
    /\ editState' = [editState EXCEPT ![u] = NewState(@, out)]
    /\ sheet' = out.rows
    /\ shown' = [shown EXCEPT ![u].buttons =
                    IF out.outcome = "done" THEN @ \cup buttons ELSE @]
    /\ last' = Step(op, u, data, num, out.outcome, out.mail)
    /\ UNCHANGED <<now, logState, setState, collected, view>>

\* the conversation is entered, or re-entered from any of its states
handle_edit_selection(u) ==
    \E entry_id \in shown[u].ids :
        EditStep(u, handle_edit_selection_out(user_data[u], sheet, entry_id),
                 "handle_edit_selection", "edit_id", 0,
                 LET entry == get_entry_by_id(sheet, entry_id)
                 IN  IF DOMAIN entry = {} THEN {}
                     ELSE FieldButtons(entry["Category"]))

NewPayerButtons == {"new_payer_Mabel", "new_payer_Jade"}

handle_edit_field_choice(u) ==
    \E data \in {"edit_log"} \cup (shown[u].buttons \cap
                    ({"delete_confirm", "edit_date", "edit_description",
                      "edit_amount", "edit_payer"} \cup NewPayerButtons)),
       fail \in 0..1 :
        /\ editState[u] = EDIT_CHOICE
        /\ EditStep(u, handle_edit_field_choice_out(user_data[u], sheet, data,
                                                    fail),
                    "handle_edit_field_choice", data, 0,
                    IF data = "edit_payer" THEN NewPayerButtons ELSE {})

\* what a user types when asked for the field: a date, a number, a
\* description; anything when the session holds no field
EditTexts(ud) ==
    LET field == Get(ud, "editing_field", "")
    IN  CASE field = "date" -> DateTexts
          [] field = "amount" -> AmountTexts
          [] field = "description" -> DescriptionTexts
          [] OTHER -> {TodayText, NumText(0), WordText("chow")}

handle_edit_value_input(u) ==
    \E text \in EditTexts(user_data[u]), fail \in 0..1, mail_ok \in BOOLEAN :
        /\ TextToEdit(u) /\ editState[u] = EDIT_VALUE
        /\ EditStep(u, handle_edit_value_input_out(user_data[u], sheet, text,
                                                   now, fail, mail_ok),
                    "handle_edit_value_input", "", 0, {})

handle_edit_payer_selection(u) ==
    \E data \in {"edit_amount_payer_Mabel", "edit_amount_payer_Jade"}
                \cup (shown[u].buttons \cap NewPayerButtons),
       fail \in 0..4 :
        /\ editState[u] = EDIT_PAYER
        /\ EditStep(u, handle_edit_payer_selection_out(user_data[u], sheet,
                                                       data, fail),
                    "handle_edit_payer_selection", data, 0, {})

handle_edit_split_selection(u) ==
    \E data \in {"edit_split_equal", "edit_split_custom"}, fail \in 0..4 :
        /\ editState[u] = EDIT_SPLIT
        /\ EditStep(u, handle_edit_split_selection_out(user_data[u], sheet,
                                                       data, fail),
                    "handle_edit_split_selection", data, 0, {})

handle_edit_custom_split_input(u) ==
    \E text \in ShareTexts, fail \in 0..4 :
        /\ TextToEdit(u) /\ editState[u] = EDIT_SPLIT
        /\ EditStep(u, handle_edit_custom_split_input_out(user_data[u], sheet,
                                                          text, fail),
                    "handle_edit_custom_split_input", "", text.n, {})

----------------------------------------------------------------------------
(* The bot *)

Tick ==
    /\ now < MaxNow
    /\ now' = now + 1
    /\ last' = Step("tick", MabelId, "", 0, "done", NoMail)
    /\ UNCHANGED <<sheet, logState, setState, editState, user_data, shown,
                   collected, view>>

NoView == <<>>

\* nobody has talked to the bot yet
Idle ==
    /\ now = 0
    /\ logState = [u \in Users |-> END]
    /\ setState = [u \in Users |-> END]
    /\ editState = [u \in Users |-> END]
    /\ user_data = [u \in Users |-> EmptyDict]
    /\ shown = [u \in Users |-> [buttons |-> {}, ids |-> {}]]
    /\ collected = [u \in Users |-> EmptyDict]
    /\ last = Step("start", MabelId, "", 0, "done", NoMail)
    /\ view = NoView

Init ==
    /\ sheet = <<>>
    /\ Idle

Next ==
    \/ Tick
    \/ \E u \in Users :
        \/ show_menu(u)
        \/ handle_back_to_menu(u)
        \/ show_summary(u)
        \/ show_edit_menu(u)
        \/ start_expense_logging(u)
        \/ handle_date(u)
        \/ handle_amount(u)
        \/ handle_payer(u)
        \/ handle_split(u)
        \/ handle_custom_split(u)
        \/ handle_description(u)
        \/ handle_settlement_start(u)
        \/ handle_settlement_amount(u)
        \/ handle_edit_selection(u)
        \/ handle_edit_field_choice(u)
        \/ handle_edit_value_input(u)
        \/ handle_edit_payer_selection(u)
        \/ handle_edit_split_selection(u)
        \/ handle_edit_custom_split_input(u)

Spec == Init /\ [][Next]_vars

----------------------------------------------------------------------------
(* The parts of the bot that are checked.  Spec is the whole machine.  A    *)
(* handler reads and writes the session of the user who sent the update,   *)
(* the sheet and the clock, and nothing of the other user; below the two   *)
(* users take turns, one holding conversations while the other is idle.    *)

Alone(u) ==
    \A v \in Users \ {u} :
        /\ logState[v] = END /\ setState[v] = END /\ editState[v] = END
        /\ user_data[v] = EmptyDict

\* The expense conversation on a sheet that starts empty.  The settlement
\* and the edit conversation share no session key with it; what they do to
\* its keys is user_data.clear(), which handle_back_to_menu does here.
\* the step of user u in which nobody typed "nan" for a number
Numbered(u) ==
    /\ last'.num # NaN
    /\ Get(user_data'[u], "amount", 0) # NaN
    /\ Get(user_data'[u], "new_amount", 0) # NaN

NextLog ==
    \/ Tick
    \/ \E u \in Users : Alone(u) /\ show_menu(u)
    \/ \E u \in Users : Alone(u) /\ handle_back_to_menu(u)
    \/ \E u \in Users : Alone(u) /\ start_expense_logging(u)
    \/ \E u \in Users : Alone(u) /\ handle_date(u)
    \/ \E u \in Users : Alone(u) /\ handle_amount(u) /\ Numbered(u)
    \/ \E u \in Users : Alone(u) /\ handle_payer(u)
    \/ \E u \in Users : Alone(u) /\ handle_split(u)
    \/ \E u \in Users : Alone(u) /\ handle_custom_split(u) /\ Numbered(u)
    \/ \E u \in Users : Alone(u) /\ handle_description(u)

SpecLog == Init /\ [][NextLog]_vars

\* Reading a stored sheet.  The rows are rows as add_expense and
\* add_settlement write them, and rows as a hand on the spreadsheet leaves
\* them: a Date that does not parse, a Paid By that names no participant.
StoredExpenses ==
    {MkRow(0, "Vet Visit", 2 * MaxDollars, p, "chow", 0, MabelId,
           EntryId(0, MabelId, ""), m, 2 * MaxDollars - m) :
        p \in Names \cup {"N/A"}, m \in {MaxDollars, 2 * MaxDollars}}

StoredSettlements ==
    {add_settlement(<<>>, 0, n, Other(n), 1, MabelId, TRUE).rows[1] :
        n \in Names}

StoredTracking ==
    {MkRow(d, c, 0, "N/A", "chow", 0, MabelId, EntryId(0, MabelId, ""), 0, 0) :
        d \in {NoDate, NumberCell, LastDay} \cup 0..MaxStoredDate,
        c \in Recurring}

StoredRows == StoredExpenses \cup StoredSettlements \cup StoredTracking

StoredSheets ==
    UNION {[1..n -> StoredRows] : n \in 0..MaxStored}

InitRead ==
    /\ sheet \in StoredSheets
    /\ Idle

\* show_summary computes tracker.get_summary()
apply_get_summary ==
    /\ view' = [op |-> "get_summary", t |-> now, result |-> get_summary(sheet)]
    /\ UNCHANGED <<sheet, now, logState, setState, editState, user_data,
                   shown, collected, last>>

\* get_reminders_status computes self.get_next_due_dates()
apply_get_next_due_dates ==
    /\ view' = [op |-> "get_next_due_dates", t |-> now,
                result |-> get_next_due_dates(sheet, now)]
    /\ UNCHANGED <<sheet, now, logState, setState, editState, user_data,
                   shown, collected, last>>

NextRead ==
    \/ Tick
    \/ apply_get_summary
    \/ apply_get_next_due_dates

SpecRead == InitRead /\ [][NextRead]_vars

\* A sheet that holds rows already: rows that add_expense and
\* add_settlement wrote at instant 0 for Mabel.
SeedExpense ==
    add_expense(<<>>, 0, 0, "Vet Visit", 2, "Mabel", "chow", MabelId,
                <<1>>, <<1>>, TRUE, TRUE).rows[1]

SeedTracking ==
    add_expense(<<>>, 0, 0, "Vaccination", 0, "N/A", "chow", MabelId,
                <<>>, <<>>, TRUE, TRUE).rows[1]

SeedSettlement ==
    add_settlement(<<>>, 0, "Jade", "Mabel", 1, MabelId, TRUE).rows[1]

SeedRows == {SeedExpense, SeedTracking, SeedSettlement}

\* up to MaxRows of them, appended within the one second: rows of one kind
\* (expense or settlement) then carry one ID
SeedSheets ==
    {s \in UNION {[1..n -> SeedRows] : n \in 0..MaxRows} :
        \A i, j \in 1..Len(s) : s[i]["ID"] = s[j]["ID"]}

\* The edit conversation on such a sheet, held by the user who wrote the
\* rows, within the second they were written
Editors == {MabelId}

InitEdit ==
    /\ sheet \in SeedSheets
    /\ Idle

NextEdit ==
    \/ \E u \in Editors : show_menu(u)
    \/ \E u \in Editors : handle_back_to_menu(u)
    \/ \E u \in Editors : show_edit_menu(u)
    \/ \E u \in Editors : handle_edit_selection(u)
    \/ \E u \in Editors : handle_edit_field_choice(u)
    \/ \E u \in Editors : handle_edit_value_input(u) /\ Numbered(u)
    \/ \E u \in Editors : handle_edit_payer_selection(u)
    \/ \E u \in Editors : handle_edit_split_selection(u)
    \/ \E u \in Editors : handle_edit_custom_split_input(u) /\ Numbered(u)

SpecEdit == InitEdit /\ [][NextEdit]_vars

\* The summary and the settlement conversation on a sheet that holds rows
\* already, among them the expense as an amount edit to 0 leaves it when
\* its second update_cell raises
SeedInterrupted ==
    handle_edit_payer_selection_out(
        ("editing_id" :> SeedExpense["ID"]) @@ ("new_amount" :> 0),
        <<SeedExpense>>, "edit_amount_payer_Mabel", 2).rows[1]

SettleSheets ==
    UNION {[1..n -> SeedRows \cup {SeedInterrupted}] : n \in 0..MaxRows}

InitSettle ==
    /\ sheet \in SettleSheets
    /\ Idle

NextSettle ==
    \/ Tick
    \/ \E u \in Users : Alone(u) /\ show_menu(u)
    \/ \E u \in Users : Alone(u) /\ handle_back_to_menu(u)
    \/ \E u \in Users : Alone(u) /\ show_summary(u)
    \/ \E u \in Users : Alone(u) /\ handle_settlement_start(u)
    \/ \E u \in Users : Alone(u) /\ handle_settlement_amount(u)

SpecSettle == InitSettle /\ [][NextSettle]_vars

----------------------------------------------------------------------------
(* Properties of the expense conversation, checked under SpecLog *)

NonTracking(category) == category \notin Recurring

\* the step just taken is handler op, run to its end for user u
Ran(op, u) == last'.op = op /\ last'.user = u /\ last'.outcome = "done"

\* C4: split calculation at creation.  When handle_split runs with
\* split_equal, both shares it stores are half of the total; when
\* handle_custom_split accepts other_amount with 0 <= other_amount <= total,
\* the payer's share is total - other_amount and the other participant's is
\* other_amount, Mabel's in mabel_share and Jade's in sister_share; either
\* way the two shares sum to the total.
C4_SplitAtCreation ==
    [][\A u \in Users :
        LET total == user_data[u]["amount"]
            payer == user_data[u]["payer"]
            mabel == user_data'[u]["mabel_share"]
            jade == user_data'[u]["sister_share"]
        IN  /\ (Ran("handle_split", u) /\ last'.data = "split_equal")
                => /\ total > 0 /\ payer \in Names
                   /\ 2 * mabel = total /\ 2 * jade = total
                   /\ mabel + jade = total
            /\ Ran("handle_custom_split", u)
                => /\ total > 0 /\ payer \in Names
                   /\ 0 <= last'.num /\ last'.num <= total
                   /\ (IF payer = "Mabel" THEN mabel ELSE jade)
                        = total - last'.num
                   /\ (IF payer = "Mabel" THEN jade ELSE mabel) = last'.num
                   /\ mabel + jade = total
    ]_vars

\* C4 happens: Jade paid one dollar and a custom split left all of it to her
C4_Witness ==
    /\ last.op = "handle_custom_split" /\ last.outcome = "done"
    /\ last.num = 0
    /\ user_data[last.user]["payer"] = "Jade"
    /\ user_data[last.user]["amount"] = 2
    /\ user_data[last.user]["mabel_share"] = 0
    /\ user_data[last.user]["sister_share"] = 2

C10_AbandonLeavesIdle ==
    [][\A u \in Users :
        (Ran("show_menu", u) \/ Ran("handle_back_to_menu", u))
            => /\ user_data'[u] = EmptyDict
               /\ logState'[u] = END
               /\ setState'[u] = END
               /\ editState'[u] = END
               /\ sheet' = sheet
    ]_vars

\* C7: the IDs of the stored rows are pairwise distinct, whoever appended
\* them and whatever the clock read.  (Under SpecLog no row is ever removed,
\* so the sheet holds every row ever stored.)
C7_IdsDistinct ==
    \A i, j \in 1..Len(sheet) : i # j => sheet[i]["ID"] # sheet[j]["ID"]

----------------------------------------------------------------------------
(* Properties of the read operations, checked under SpecRead *)

IsExpense(row) == row["Category"] # "Settlement Payment"

\* the sum of column over the rows that satisfy Test
SumWhere(rows, column, Test(_)) ==
    SumSeq([i \in 1..Len(rows) |->
               IF Test(rows[i]) THEN rows[i][column] ELSE 0])

AnyRow(row) == TRUE

\* C2: get_summary returns total_spent = the sum of Amount over the
\* non-settlement rows; user_payments[p] = the sum of Amount over the
\* non-settlement rows whose Paid By is p; user_shares of Mabel and Jade =
\* the sums of Mabel Share and Sister Share over all rows, settlements
\* included; balances[p] = user_payments[p] - user_shares[p].
C2_SummaryIsTheSums ==
    (view # NoView /\ view.op = "get_summary") =>
        LET r == view.result
            PaidByMabel(row) == IsExpense(row) /\ row["Paid By"] = "Mabel"
            PaidByJade(row) == IsExpense(row) /\ row["Paid By"] = "Jade"
        IN  /\ r.total_spent = SumWhere(sheet, "Amount", IsExpense)
            /\ r.user_payments["Mabel"] = SumWhere(sheet, "Amount", PaidByMabel)
            /\ r.user_payments["Jade"] = SumWhere(sheet, "Amount", PaidByJade)
            /\ r.user_shares["Mabel"] = SumWhere(sheet, "Mabel Share", AnyRow)
            /\ r.user_shares["Jade"] = SumWhere(sheet, "Sister Share", AnyRow)
            /\ \A p \in Names :
                r.balances[p] = r.user_payments[p] - r.user_shares[p]

\* C2 happens: a summary of a sheet with an expense Jade paid, an expense
\* nobody of the two paid, and a settlement
C2_Witness ==
    /\ view # NoView /\ view.op = "get_summary"
    /\ Len(sheet) = 3
    /\ sheet[1]["Paid By"] = "Jade"
    /\ sheet[2]["Paid By"] = "N/A" /\ sheet[2]["Amount"] > 0
    /\ ~IsExpense(sheet[3])
    /\ view.result.balances["Jade"] # 0 - view.result.balances["Mabel"]

Perms(s) ==
    {[i \in 1..Len(s) |-> s[f[i]]] :
        f \in {g \in [1..Len(s) -> 1..Len(s)] :
                  \A i, j \in 1..Len(s) : i # j => g[i] # g[j]}}

DatesOf(rows, category) ==
    {rows[i]["Date"] : i \in {j \in 1..Len(rows) :
        rows[j]["Category"] = category /\ ParsesAsDate(rows[j]["Date"])}}

\* C6: for Vaccination and for Blood Test, get_next_due_dates reports the
\* category exactly when a row of it has a Date that parses, with last_date
\* the greatest such Date and next_date 365 resp. 183 days after it; every
\* permutation of the rows gives the same result, and so does the sheet
\* without a row of an earlier date.
C6_DueFromLatestDate ==
    (view # NoView /\ view.op = "get_next_due_dates") =>
        /\ \A c \in Recurring :
            LET key == EventType(c)
                dates == DatesOf(sheet, c)
            IN  IF dates = {} THEN key \notin DOMAIN view.result
                ELSE /\ key \in DOMAIN view.result
                     /\ view.result[key].last_date = MaxOf(dates)
                     /\ view.result[key].next_date
                          = MaxOf(dates) + (IF c = "Vaccination" THEN 365 ELSE 183)
        /\ \A p \in Perms(sheet) : get_next_due_dates(p, view.t) = view.result
        /\ \A i \in 1..Len(sheet) :
            (/\ sheet[i]["Category"] \in Recurring
             /\ ParsesAsDate(sheet[i]["Date"])
             /\ sheet[i]["Date"] < MaxOf(DatesOf(sheet, sheet[i]["Category"])))
                => get_next_due_dates(RemoveAt(sheet, i), view.t) = view.result

\* C6 happens: the latest vaccination is stored before an earlier one and a
\* row whose date does not parse
C6_Witness ==
    /\ view # NoView /\ view.op = "get_next_due_dates"
    /\ Len(sheet) = 3
    /\ \A i \in 1..3 : sheet[i]["Category"] = "Vaccination"
    /\ sheet[1]["Date"] = 1 /\ sheet[2]["Date"] = 0 /\ sheet[3]["Date"] = NoDate
    /\ view.result["vaccination"].next_date = 366

----------------------------------------------------------------------------
(* Properties of the edit conversation, checked under SpecEdit *)

\* C1: every stored row that is not a settlement has Mabel Share + Sister
\* Share = Amount.
C1_SharesSumToAmount ==
    \A i \in 1..Len(sheet) :
        IsExpense(sheet[i])
            => sheet[i]["Mabel Share"] + sheet[i]["Sister Share"]
                 = sheet[i]["Amount"]

\* C8: when the delete button removes entry X (delete_entry returned True),
\* get_entry_by_id(X) is empty, no stored row has ID X, and the sheet is the
\* sheet before without exactly one row.
C8_DeleteThenLookup ==
    [][\A u \in Users :
        (Ran("handle_edit_field_choice", u) /\ last'.data = "delete_confirm")
            => LET X == user_data[u]["editing_id"]
               IN  /\ get_entry_by_id(sheet', X) = EmptyDict
                   /\ \A i \in 1..Len(sheet') : sheet'[i]["ID"] # X
                   /\ \E i \in 1..Len(sheet) : sheet' = RemoveAt(sheet, i)
    ]_vars

----------------------------------------------------------------------------
(* Properties of the settlement conversation, checked under SpecSettle *)

\* C3: settlement round trip.  When the balance is not zero and the debtor
\* records, in the direction show_summary offers, a settlement of exactly
\* the amount show_summary names, get_summary then gives both participants
\* the balance 0.
C3_SettlementRoundTrip ==
    [][\A u \in Users :
        LET owed == get_summary(sheet).balances["Mabel"]
            debtor == IF owed > 0 THEN "Jade" ELSE "Mabel"
        IN  (/\ Ran("handle_settlement_amount", u)
             /\ owed # 0
             /\ AUTHORIZED_USERS[u] = debtor
             /\ user_data[u]["settlement_from"] = debtor
             /\ last'.num = Abs(owed))
                => \A p \in Names : get_summary(sheet').balances[p] = 0
    ]_vars

----------------------------------------------------------------------------
(* Failure paths of the expense conversation, checked under SpecLog *)

\* the outcomes a step handler of the expense conversation can have in
\* state st with session ud, over every input the state listens to
LogOutcomes(st, ud, rows, u, t) ==
    CASE st = DATE ->
            {handle_date_out(ud, rows, text, t).outcome : text \in DateTexts}
      [] st = AMOUNT ->
            {handle_amount_out(ud, rows, text).outcome : text \in AmountTexts}
      [] st = PAYER ->
            {handle_payer_out(ud, rows, payer).outcome : payer \in Names}
      [] st = SPLIT ->
            {handle_split_out(ud, rows, data).outcome :
                data \in {"split_equal", "split_custom"}}
            \cup {handle_custom_split_out(ud, rows, text).outcome :
                    text \in ShareTexts}
      [] st = DESCRIPTION ->
            {handle_description_out(ud, rows, text, u, t, ok[1], ok[2]).outcome :
                text \in DescriptionTexts, ok \in BOOLEAN \X BOOLEAN}
      [] OTHER -> {}

\* C11: no failure leaves a conversation in a state it cannot leave.  In
\* every reachable state where a user's expense conversation is not idle,
\* some input to the state's handlers is taken without being rejected and
\* without raising, so that the conversation can move on towards END.
C11_FailuresReturnToIdle ==
    \A u \in Users :
        logState[u] # END
            => LogOutcomes(logState[u], user_data[u], sheet, u, now)
                  \ {"raised", "reprompt"} # {}

----------------------------------------------------------------------------
(* Edits of stored rows, checked under SpecEdit *)

\* the step leaves the number of rows as it is and changes cell h of row i
Rewrites(i, h) ==
    /\ Len(sheet') = Len(sheet)
    /\ i \in 1..Len(sheet)
    /\ sheet'[i][h] # sheet[i][h]

SplitSteps == {"handle_edit_split_selection", "handle_edit_custom_split_input"}

\* C12: amount and payer are edited together through the split step.  A step
\* that changes the Paid By or the Amount of a stored row is a step of the
\* split handlers, taken after the split policy was asked for, and the row
\* it leaves has the amount, the payer and the shares of that one update:
\* Paid By = new_payer, Amount = new_amount, shares summing to it.
C12_PayerAndAmountTogether ==
    [][\A i \in 1..Len(sheet) :
        (Rewrites(i, "Paid By") \/ Rewrites(i, "Amount"))
            => LET ud == user_data[last'.user]
               IN  /\ last'.op \in SplitSteps
                   /\ editState[last'.user] = EDIT_SPLIT
                   /\ sheet'[i]["Paid By"] = ud["new_payer"]
                   /\ sheet'[i]["Amount"] = ud["new_amount"]
                   /\ sheet'[i]["Mabel Share"] + sheet'[i]["Sister Share"]
                        = ud["new_amount"]
    ]_vars

----------------------------------------------------------------------------
(* The calendar mail.  Both users log tracking entries, one at a time, and *)
(* edit or delete the date of stored rows, each in their own conversation, *)
(* on a sheet that holds rows already.                                     *)

NextMail ==
    \/ \E u \in Users :
        Alone(u) /\ start_expense_logging(u) /\ type_map_get(last'.data)[2]
    \/ \E u \in Users : Alone(u) /\ handle_date(u)
    \/ \E u \in Users : Alone(u) /\ handle_description(u)
    \/ \E u \in Users : show_edit_menu(u)
    \/ \E u \in Users : handle_edit_selection(u)
    \/ \E u \in Users :
        handle_edit_field_choice(u)
            /\ last'.data \in {"edit_date", "delete_confirm"}
    \/ \E u \in Users : handle_edit_value_input(u)

\* the sheet is empty, or holds an expense and a tracking entry that Mabel
\* stored within one second
InitMail ==
    /\ sheet \in {<<>>, <<SeedExpense, SeedTracking>>,
                  <<[SeedTracking EXCEPT !["Date"] = 1]>>}
    /\ Idle

SpecMail == InitMail /\ [][NextMail]_vars

\* the one call of send_calendar_email for category and date d
MailFor(category, d) ==
    {<<[event_type |-> EventType(category), current_date |-> d,
        next_due_date |-> d + (IF category = "Vaccination" THEN 365 ELSE 183),
        ok |-> ok]>> : ok \in BOOLEAN}

\* C13: when handle_edit_value_input has updated the Date of a stored row
\* to d, it has called send_calendar_email exactly once, with d and
\* d + 365 resp. d + 183, if the row is a Vaccination resp. a Blood Test,
\* and not at all if the row is of another category.
C13_DateEditSendsOneMail ==
    [][\A u \in Users :
        (/\ Ran("handle_edit_value_input", u)
         /\ Get(user_data[u], "editing_field", "") = "date")
            => LET i == FindRow(sheet, user_data[u]["editing_id"])
                   category == sheet[i]["Category"]
                   d == sheet'[i]["Date"]
               IN  IF category \in Recurring
                   THEN last'.mail \in MailFor(category, d)
                   ELSE last'.mail = NoMail
    ]_vars

\* C14: the calendar mail follows the store write.  A step that called
\* send_calendar_email is a handle_description that appended a row of a
\* recurring category, or a handle_edit_value_input whose update_entry wrote
\* the Date of the row; the mail carries the date that was stored; and the
\* step ends as a success ("done": the user is told the entry is saved, with
\* a warning when the mail did not go out) with the row in the sheet,
\* whether or not the mail went out.
C14_MailAfterStoreWrite ==
    [][last'.mail # NoMail =>
        LET u == last'.user
            mail == last'.mail[1]
        IN  /\ Len(last'.mail) = 1
            /\ last'.outcome = "done"
            /\ \/ /\ last'.op = "handle_description"
                  /\ sheet' # sheet
                  /\ Len(sheet') = Len(sheet) + 1
                  /\ SubSeq(sheet', 1, Len(sheet)) = sheet
                  /\ sheet'[Len(sheet')]["Category"] \in Recurring
                  /\ sheet'[Len(sheet')]["Date"] = mail.current_date
               \/ /\ last'.op = "handle_edit_value_input"
                  /\ Len(sheet') = Len(sheet)
                  /\ FindRow(sheet, user_data[u]["editing_id"]) # 0
                  /\ sheet'[FindRow(sheet, user_data[u]["editing_id"])]["Date"]
                        = mail.current_date
    ]_vars

\* C14 happens: the Date of a Vaccination that was stored with the last day
\* of the calendar was edited to day 0, the calendar mail for it did not go
\* out, and the row holds the new date
C14_Witness ==
    /\ last.op = "handle_edit_value_input" /\ last.outcome = "done"
    /\ last.mail # NoMail /\ ~last.mail[1].ok
    /\ last.mail[1].current_date = 0
    /\ Len(sheet) = 1
    /\ sheet[1]["Category"] = "Vaccination" /\ sheet[1]["Date"] = 0
    /\ sheet[1]["User ID"] = JadeId

----------------------------------------------------------------------------
(* The edit conversation on a sheet that holds an expense and a settlement *)

InitEditSettled ==
    /\ sheet \in {<<SeedExpense, SeedSettlement>>,
                  <<SeedExpense,
                    [SeedTracking EXCEPT !["ID"] = EntryId(0, JadeId, ""),
                                         !["User ID"] = JadeId]>>}
    /\ Idle

\* the date, the description, the payer and the Delete button of the edit
\* conversation
NextEditSettled ==
    \/ \E u \in Editors : show_edit_menu(u)
    \/ \E u \in Editors : handle_edit_selection(u)
    \/ \E u \in Editors :
        handle_edit_field_choice(u)
            /\ last'.data \in {"edit_date", "edit_description", "delete_confirm",
                               "edit_payer"} \cup NewPayerButtons
    \/ \E u \in Editors : handle_edit_value_input(u)

SpecEditSettled == InitEditSettled /\ [][NextEditSettled]_vars

\* C15: settlement rows are deleted, never edited.  Whatever step is taken,
\* a stored Settlement Payment row is in the sheet afterwards with every
\* cell as it was, unless the step is the Delete button's delete_entry,
\* which removes the row.
C15_SettlementsOnlyDeleted ==
    [][\A i \in 1..Len(sheet) :
        sheet[i]["Category"] = "Settlement Payment"
            => \/ \E j \in 1..Len(sheet') : sheet'[j] = sheet[i]
               \/ /\ last'.op = "handle_edit_field_choice"
                  /\ last'.data = "delete_confirm"
                  /\ sheet' = RemoveAt(sheet, i)
    ]_vars

\* The fields no update of the edit conversation names
FixedFields == {"ID", "Entry Date", "User ID", "Category"}

\* C16: a step of the edit conversation either leaves the sheet alone, or
\* removes one row and keeps the others (delete), or changes cells of the one
\* row under editing_id: that row keeps its ID, Entry Date, User ID (and
\* Category), and every other row is unchanged.
C16_EditKeepsIdentity ==
    [][\/ sheet' = sheet
       \/ /\ last'.op = "handle_edit_field_choice"
          /\ last'.data = "delete_confirm"
          /\ \E i \in 1..Len(sheet) : sheet' = RemoveAt(sheet, i)
       \/ /\ Len(sheet') = Len(sheet)
          /\ Has(user_data[last'.user], "editing_id")
          /\ LET i == FindRow(sheet, user_data[last'.user]["editing_id"])
             IN  /\ i # 0
                 /\ \A j \in 1..Len(sheet) : j # i => sheet'[j] = sheet[j]
                 /\ \A h \in FixedFields : sheet'[i][h] = sheet[i][h]
    ]_vars

\* an amount edit has rewritten the first of two rows that carry one ID
C16_Witness ==
    /\ last.op = "handle_edit_split_selection"
    /\ last.outcome = "done"
    /\ Len(sheet) = 2
    /\ sheet[1]["ID"] = sheet[2]["ID"]
    /\ sheet[1]["Amount"] = 0
    /\ sheet[2] = SeedExpense
    /\ \A h \in FixedFields : sheet[1][h] = SeedExpense[h]

----------------------------------------------------------------------------
(* Properties of what is stored, checked under SpecLog *)

Categories ==
    {type_map[b][1] : b \in DOMAIN type_map} \cup {"Settlement Payment"}

\* C17: every stored row's Category is one of Vet Visit, Vaccination, Blood
\* Test, Other Vet, Other Expense, Settlement Payment; a logging conversation
\* started with callback data that is not one of the five log buttons stores
\* no row.
C17_CategoriesKnown ==
    \A i \in 1..Len(sheet) : sheet[i]["Category"] \in Categories

\* One user logging vet visits and editing amounts and descriptions, "nan"
\* among the numbers typed, while update_cell never fails
InitAmounts ==
    /\ sheet \in {<<>>, <<SeedExpense>>}
    /\ Idle

\* one conversation at a time: u logs while the edit conversation is idle,
\* and edits while the logging conversation is idle
Logging(u) == editState[u] = END

Editing(u) == logState[u] = END

\* the step in which no update_cell failed
Stored == last'.outcome # "failed"

NextAmounts ==
    \/ \E u \in Editors : Logging(u) /\ start_expense_logging(u) /\ last'.data = "log_vet"
    \/ \E u \in Editors : Logging(u) /\ handle_date(u)
    \/ \E u \in Editors : Logging(u) /\ handle_amount(u)
    \/ \E u \in Editors : Logging(u) /\ handle_payer(u)
    \/ \E u \in Editors : Logging(u) /\ handle_split(u)
    \/ \E u \in Editors : Logging(u) /\ handle_custom_split(u)
    \/ \E u \in Editors : Logging(u) /\ handle_description(u)
    \/ \E u \in Editors : Editing(u) /\ show_edit_menu(u)
    \/ \E u \in Editors : Editing(u) /\ handle_edit_selection(u)
    \/ \E u \in Editors :
        Editing(u) /\ handle_edit_field_choice(u)
            /\ last'.data \in {"edit_amount", "edit_description"}
    \/ \E u \in Editors : Editing(u) /\ handle_edit_value_input(u) /\ Stored
    \/ \E u \in Editors : Editing(u) /\ handle_edit_payer_selection(u) /\ Stored
    \/ \E u \in Editors : Editing(u) /\ handle_edit_split_selection(u) /\ Stored
    \/ \E u \in Editors : Editing(u) /\ handle_edit_custom_split_input(u) /\ Stored

SpecAmounts == InitAmounts /\ [][NextAmounts]_vars

\* C18: every stored row has an Amount that is a number >= 0 and a
\* Description that is not empty, whatever was typed while logging and
\* editing.
C18_AmountAndDescriptionValid ==
    \A i \in 1..Len(sheet) :
        /\ sheet[i]["Amount"] # NaN
        /\ sheet[i]["Amount"] >= 0
        /\ sheet[i]["Description"] # ""

----------------------------------------------------------------------------
(* Validation, checked under SpecAmounts *)

\* the text spells a number
ANumber(text) == text.k = "num" /\ text.n # NaN

InvalidDate(text) == text.k \notin {"today", "date"}

InvalidAmount(text) == ~ANumber(text) \/ text.n < 0

InvalidShare(text, total) ==
    ~ANumber(text) \/ total = NaN \/ text.n < 0 \/ text.n > total

InvalidDescription(text) == text.s = ""

\* the handler's result out leaves the conversation in state st with the
\* session ud, and the sheet as it was
Reprompts(out, st, ud) ==
    /\ NewState(st, out) = st
    /\ out.ud = ud
    /\ out.rows = sheet

\* C19: at every input step of the logging, settlement and edit
\* conversations, an invalid text (a date that does not parse, an amount
\* that is no number or is negative, a custom split that is no number or
\* lies outside [0, total], an empty description) leaves the conversation in
\* the same state and the session and the sheet unchanged.
C19_InvalidInputReprompts ==
    \A u \in Users :
        LET ud == user_data[u]
            field == Get(ud, "editing_field", "")
        IN  /\ logState[u] = DATE =>
                \A text \in DateTexts : InvalidDate(text) =>
                    Reprompts(handle_date_out(ud, sheet, text, now), DATE, ud)
            /\ logState[u] = AMOUNT =>
                \A text \in AmountTexts : InvalidAmount(text) =>
                    Reprompts(handle_amount_out(ud, sheet, text), AMOUNT, ud)
            /\ (logState[u] = SPLIT /\ Has(ud, "amount")) =>
                \A text \in ShareTexts : InvalidShare(text, ud["amount"]) =>
                    Reprompts(handle_custom_split_out(ud, sheet, text),
                              SPLIT, ud)
            /\ logState[u] = DESCRIPTION =>
                \A text \in DescriptionTexts, ok \in BOOLEAN \X BOOLEAN :
                    InvalidDescription(text) =>
                        Reprompts(handle_description_out(ud, sheet, text, u,
                                                         now, ok[1], ok[2]),
                                  DESCRIPTION, ud)
            /\ setState[u] = SETTLEMENT_AMOUNT =>
                \A text \in ShareTexts, store_ok \in BOOLEAN :
                    InvalidAmount(text) =>
                        Reprompts(handle_settlement_amount_out(
                                      ud, sheet, text, u, now, store_ok),
                                  SETTLEMENT_AMOUNT, ud)
            /\ (editState[u] = EDIT_VALUE /\ field = "date") =>
                \A text \in DateTexts, fail \in 0..1, ok \in BOOLEAN :
                    InvalidDate(text) =>
                        Reprompts(handle_edit_value_input_out(
                                      ud, sheet, text, now, fail, ok),
                                  EDIT_VALUE, ud)
            /\ (editState[u] = EDIT_VALUE /\ field = "amount") =>
                \A text \in AmountTexts, fail \in 0..1, ok \in BOOLEAN :
                    InvalidAmount(text) =>
                        Reprompts(handle_edit_value_input_out(
                                      ud, sheet, text, now, fail, ok),
                                  EDIT_VALUE, ud)
            /\ (editState[u] = EDIT_VALUE /\ field = "description") =>
                \A text \in DescriptionTexts, fail \in 0..1, ok \in BOOLEAN :
                    InvalidDescription(text) =>
                        Reprompts(handle_edit_value_input_out(
                                      ud, sheet, text, now, fail, ok),
                                  EDIT_VALUE, ud)
            /\ (editState[u] = EDIT_SPLIT /\ Has(ud, "new_amount")) =>
                \A text \in ShareTexts, fail \in 0..4 :
                    InvalidShare(text, ud["new_amount"]) =>
                        Reprompts(handle_edit_custom_split_input_out(
                                      ud, sheet, text, fail),
                                  EDIT_SPLIT, ud)

----------------------------------------------------------------------------
(* update_entry and delete_entry called with any ID, on sheets whose rows  *)
(* carry different IDs                                                     *)

JadeExpense ==
    add_expense(<<>>, 1, 0, "Vet Visit", 2, "Jade", "chow", JadeId,
                <<1>>, <<1>>, TRUE, TRUE).rows[1]

LookupRows == {SeedExpense, SeedSettlement, JadeExpense}

\* the IDs asked for: those of the rows, and IDs that differ from them in
\* the second, the user or the "_settlement" only
LookupIds ==
    {EntryId(t, u, suffix) :
        t \in 0..MaxNow, u \in Users, suffix \in {"", "_settlement"}}

LookupUpdates ==
    {<<<<"Description", "kibble">>>>, AmountUpdates(0, "Jade", 0, 0),
     <<<<"Notes", "kibble">>>>,
     <<<<"Notes", "kibble">>, <<"Description", "kibble">>>>}

InitLookup ==
    /\ sheet \in UNION {[1..n -> LookupRows] : n \in 0..MaxRows}
    /\ Idle

apply_update_entry ==
    \E entry_id \in LookupIds, updates \in LookupUpdates, fail \in 0..1 :
        LET r == update_entry(sheet, entry_id, updates, fail)
        IN  /\ sheet' = r.rows
            /\ view' = [op |-> "update_entry", t |-> now,
                        result |-> [entry_id |-> entry_id, ok |-> r.ok,
                                    updates |-> updates, fail |-> fail]]
            /\ UNCHANGED <<now, logState, setState, editState, user_data,
                           shown, collected, last>>

apply_delete_entry ==
    \E entry_id \in LookupIds, store_ok \in BOOLEAN :
        LET r == delete_entry(sheet, entry_id, store_ok)
        IN  /\ sheet' = r.rows
            /\ view' = [op |-> "delete_entry", t |-> now,
                        result |-> [entry_id |-> entry_id, ok |-> r.ok]]
            /\ UNCHANGED <<now, logState, setState, editState, user_data,
                           shown, collected, last>>

NextLookup ==
    \/ apply_update_entry
    \/ apply_delete_entry

SpecLookup == InitLookup /\ [][NextLookup]_vars

\* the rows of a sheet whose ID is not entry_id, in their order
Others(rows, entry_id) ==
    SelectSeq(rows, LAMBDA row : row["ID"] # entry_id)

\* C20: update_entry and delete_entry called with an ID that no row carries
\* return False and leave the sheet as it was; whatever the ID, the rows
\* whose ID differs from it stay as they were, and True is returned only
\* when some row's ID equals it.
C20_UnknownIdChangesNothing ==
    [][LET entry_id == view'.result.entry_id
           ok == view'.result.ok
       IN  /\ (\A i \in 1..Len(sheet) : sheet[i]["ID"] # entry_id)
                => (~ok /\ sheet' = sheet)
           /\ ok => \E i \in 1..Len(sheet) : sheet[i]["ID"] = entry_id
           /\ Others(sheet', entry_id) = Others(sheet, entry_id)
    ]_vars

\* delete_entry was asked for the ID of an expense of the second and user
\* of the one stored settlement: it returned False and the row is there
C20_Witness ==
    /\ view # NoView /\ view.op = "delete_entry"
    /\ view.result.entry_id = EntryId(0, MabelId, "")
    /\ ~view.result.ok
    /\ sheet = <<SeedSettlement>>

\* the value the dictionary updates gives field, the last one it names
Given(updates, field) ==
    updates[MaxOf({j \in 1..Len(updates) : updates[j][1] = field})][2]

Named(updates) == {updates[j][1] : j \in 1..Len(updates)}

\* C21: update_entry called for an ID some row carries, with no update_cell
\* failing, returns True; the first row with the ID gets the value of every
\* field of updates that is a header, field names that are no header add no
\* cell and change none, and every other cell of the sheet stays.
C21_UnknownFieldsIgnored ==
    [][(/\ view'.op = "update_entry"
        /\ view'.result.fail = 0
        /\ \E i \in 1..Len(sheet) : sheet[i]["ID"] = view'.result.entry_id)
        => LET updates == view'.result.updates
               i == CHOOSE k \in 1..Len(sheet) :
                        /\ sheet[k]["ID"] = view'.result.entry_id
                        /\ \A j \in 1..(k - 1) :
                                sheet[j]["ID"] # view'.result.entry_id
           IN  /\ view'.result.ok
               /\ Len(sheet') = Len(sheet)
               /\ \A k \in 1..Len(sheet) : k # i => sheet'[k] = sheet[k]
               /\ DOMAIN sheet'[i] = Range(Headers)
               /\ \A h \in Range(Headers) :
                    sheet'[i][h] = IF h \in Named(updates)
                                   THEN Given(updates, h) ELSE sheet[i][h]
    ]_vars

\* update_entry got Notes, which is no header, and Description: it returned
\* True and the row holds the new description
C21_Witness ==
    /\ view # NoView /\ view.op = "update_entry"
    /\ view.result.ok
    /\ view.result.updates = <<<<"Notes", "kibble">>, <<"Description", "kibble">>>>
    /\ view.result.entry_id = SeedExpense["ID"]
    /\ sheet = <<[SeedExpense EXCEPT !["Description"] = "kibble"]>>

----------------------------------------------------------------------------
(* The summary of a sheet that holds rows with cells that are no numbers   *)

\* rows as a partial write or a hand on the spreadsheet leaves them: the
\* Amount or a share is empty or a word
MalformedRows ==
    {[SeedExpense EXCEPT ![h] = NotFloat] :
        h \in {"Amount", "Mabel Share", "Sister Share"}}
    \cup {[SeedSettlement EXCEPT ![h] = NotFloat] :
            h \in {"Amount", "Sister Share"}}

InitSkip ==
    /\ sheet \in UNION {[1..n -> StoredExpenses \cup StoredSettlements
                                    \cup MalformedRows] : n \in 0..MaxStored}
    /\ Idle

NextSkip ==
    \/ Tick
    \/ apply_get_summary

SpecSkip == InitSkip /\ [][NextSkip]_vars

WellFormed(row) ==
    NotFloat \notin {row["Amount"], row["Mabel Share"], row["Sister Share"]}

\* C22: get_summary skips a row whose Amount, Mabel Share or Sister Share is
\* no number, as a whole: the result is the result for the sheet without
\* those rows, and total_spent, user_payments and user_shares are the sums
\* over the other rows alone.
C22_MalformedRowsSkipped ==
    (view # NoView /\ view.op = "get_summary") =>
        LET r == view.result
            Spent(row) == WellFormed(row) /\ IsExpense(row)
            PaidByMabel(row) == Spent(row) /\ row["Paid By"] = "Mabel"
            PaidByJade(row) == Spent(row) /\ row["Paid By"] = "Jade"
        IN  /\ r = get_summary(SelectSeq(sheet, WellFormed))
            /\ r.total_spent = SumWhere(sheet, "Amount", Spent)
            /\ r.user_payments["Mabel"] = SumWhere(sheet, "Amount", PaidByMabel)
            /\ r.user_payments["Jade"] = SumWhere(sheet, "Amount", PaidByJade)
            /\ r.user_shares["Mabel"] = SumWhere(sheet, "Mabel Share", WellFormed)
            /\ r.user_shares["Jade"] = SumWhere(sheet, "Sister Share", WellFormed)

\* the summary of an expense whose Sister Share is no number, between two
\* rows that count
C22_Witness ==
    /\ view # NoView /\ view.op = "get_summary"
    /\ Len(sheet) = 3
    /\ WellFormed(sheet[1]) /\ IsExpense(sheet[1])
    /\ sheet[2] = [SeedExpense EXCEPT !["Sister Share"] = NotFloat]
    /\ WellFormed(sheet[3]) /\ ~IsExpense(sheet[3])
    /\ view.result.total_spent = sheet[1]["Amount"]

\* C23: a Vaccination or Blood Test row whose Date does not parse is skipped
\* by get_next_due_dates: the result is the result for the sheet without
\* that row.
C23_UnparsedDateSkipped ==
    (view # NoView /\ view.op = "get_next_due_dates") =>
        \A i \in 1..Len(sheet) :
            (sheet[i]["Category"] \in Recurring
                /\ ~ParsesAsDate(sheet[i]["Date"]))
                => get_next_due_dates(RemoveAt(sheet, i), view.t) = view.result

----------------------------------------------------------------------------
(* Reminders that fall due around today: the sheet holds vaccinations of   *)
(* 365 and 364 days ago and blood tests of 183 and 182 days ago            *)

DueRows ==
    {MkRow(0 - d, "Vaccination", 0, "N/A", "chow", 0, MabelId,
           EntryId(0, MabelId, ""), 0, 0) :
        d \in {VaccinationInterval, VaccinationInterval - 1}}
    \cup {MkRow(0 - d, "Blood Test", 0, "N/A", "chow", 0, MabelId,
                EntryId(0, MabelId, ""), 0, 0) :
            d \in {BloodTestInterval, BloodTestInterval - 1}}

InitDue ==
    /\ sheet \in UNION {[1..n -> DueRows] : n \in 0..MaxStored}
    /\ Idle

\* handle_menu_buttons, view_reminders
apply_get_reminders_status ==
    /\ view' = [op |-> "get_reminders_status", t |-> now,
                result |-> get_reminders_status(sheet, now)]
    /\ UNCHANGED <<sheet, now, logState, setState, editState, user_data,
                   shown, collected, last>>

NextDueDates ==
    \/ Tick
    \/ apply_get_next_due_dates
    \/ apply_get_reminders_status

SpecDue == InitDue /\ [][NextDueDates]_vars

\* C24: days_until of a category is its due date minus today's date, at
\* any time of the day, and the reminder status calls a category overdue
\* only when its due date is not after today.
C24_DaysUntilIsDateDifference ==
    /\ (view # NoView /\ view.op = "get_next_due_dates") =>
            \A key \in DOMAIN view.result :
                view.result[key].days_until
                    = view.result[key].next_date - (view.t \div TicksPerDay)
    /\ (view # NoView /\ view.op = "get_reminders_status") =>
            \A key \in DOMAIN view.result :
                view.result[key] = "overdue"
                    => get_next_due_dates(sheet, view.t)[key].next_date
                         <= view.t \div TicksPerDay

----------------------------------------------------------------------------
(* Recording a settlement, checked under SpecSettle *)

ShareOf(name) == IF name = "Mabel" THEN "Mabel Share" ELSE "Sister Share"

\* C25: when handle_settlement_amount records that from_user paid to_user
\* the amount typed, the amount is > 0 and one row is appended: a
\* Settlement Payment with Amount 0, from_user's share = -amount and
\* to_user's share = +amount; total_spent and both user_payments of the
\* summary stay, from_user's balance rises by the amount and to_user's
\* falls by it.
C25_SettlementRow ==
    [][\A u \in Users :
        Ran("handle_settlement_amount", u)
            => LET paid == last'.num
                   from_user == user_data[u]["settlement_from"]
                   to_user == user_data[u]["settlement_to"]
                   row == sheet'[Len(sheet')]
                   before == get_summary(sheet)
                   after == get_summary(sheet')
               IN  /\ paid > 0
                   /\ sheet' = Append(sheet, row)
                   /\ row["Category"] = "Settlement Payment"
                   /\ row["Amount"] = 0
                   /\ {from_user, to_user} = Names
                   /\ row[ShareOf(from_user)] = 0 - paid
                   /\ row[ShareOf(to_user)] = paid
                   /\ row["Mabel Share"] + row["Sister Share"] = 0
                   /\ after.total_spent = before.total_spent
                   /\ after.user_payments = before.user_payments
                   /\ after.balances[from_user]
                        = before.balances[from_user] + paid
                   /\ after.balances[to_user] = before.balances[to_user] - paid
    ]_vars

\* Jade has recorded that she paid Mabel half a dollar, after an expense
C25_Witness ==
    /\ last.op = "handle_settlement_amount" /\ last.outcome = "done"
    /\ last.num = 1
    /\ Len(sheet) = 2
    /\ sheet[1] = SeedExpense
    /\ sheet[2]["Category"] = "Settlement Payment"
    /\ sheet[2]["Sister Share"] = 0 - 1
    /\ sheet[2]["Mabel Share"] = 1

----------------------------------------------------------------------------
(* Editing an amount and the summary, checked under SpecEdit *)

\* the step is user u's equal split of an amount edit, run to its end
EqualSplitEdit(u) ==
    Ran("handle_edit_split_selection", u) /\ last'.data = "edit_split_equal"

\* what the claim says of such a step: with A the Amount of the entry under
\* editing_id and B the new amount, each participant's user_shares changes
\* by (B - A) / 2 and total_spent by B - A, the other rows stay, and the
\* entry's shares sum to B
EditAggregates(u) ==
    LET i == FindRow(sheet, user_data[u]["editing_id"])
        A == sheet[i]["Amount"]
        B == user_data[u]["new_amount"]
        before == get_summary(sheet)
        after == get_summary(sheet')
    IN  /\ i # 0
        /\ Len(sheet') = Len(sheet)
        /\ \A k \in 1..Len(sheet) : k # i => sheet'[k] = sheet[k]
        /\ sheet'[i]["Amount"] = B
        /\ sheet'[i]["Mabel Share"] + sheet'[i]["Sister Share"] = B
        /\ \A p \in Names :
            2 * (after.user_shares[p] - before.user_shares[p]) = B - A
        /\ after.total_spent - before.total_spent = B - A

\* the entry under editing_id is an expense split in equal shares
EquallySplit(u) ==
    LET i == FindRow(sheet, user_data[u]["editing_id"])
    IN  /\ i # 0
        /\ IsExpense(sheet[i])
        /\ 2 * sheet[i]["Mabel Share"] = sheet[i]["Amount"]
        /\ 2 * sheet[i]["Sister Share"] = sheet[i]["Amount"]

----------------------------------------------------------------------------
(* The split step of the two conversations, from sessions that hold the
   same total and payer *)

\* the totals a session can hold at the split step, in half dollars; "nan"
\* passes both amount checks (handle_amount, handle_edit_value_input)
SplitTotals == {NaN} \cup 1..(2 * MaxDollars + 1)

\* user_data as handle_payer leaves it
LogSession(total, payer) ==
    ("category" :> "Vet Visit") @@ ("is_tracking" :> FALSE) @@ ("date" :> 0)
    @@ ("amount" :> total) @@ ("payer" :> payer)

\* user_data as handle_edit_payer_selection leaves it for a non-zero amount
EditSession(total, payer) ==
    ("editing_id" :> SeedExpense["ID"])
    @@ ("editing_entry" :> EntryKept(SeedExpense))
    @@ ("editing_field" :> "amount")
    @@ ("new_amount" :> total) @@ ("new_payer" :> payer)

InitSplit ==
    \E u \in Users, total \in SplitTotals, payer \in Names :
    \E flow \in {"log", "edit"} :
        /\ sheet = <<SeedExpense>>
        /\ now = 0
        /\ setState = [v \in Users |-> END]
        /\ logState = [v \in Users |->
                          IF v = u /\ flow = "log" THEN SPLIT ELSE END]
        /\ editState = [v \in Users |->
                           IF v = u /\ flow = "edit" THEN EDIT_SPLIT ELSE END]
        /\ user_data = [v \in Users |->
                           IF v # u THEN EmptyDict
                           ELSE IF flow = "log" THEN LogSession(total, payer)
                           ELSE EditSession(total, payer)]
        /\ shown = [v \in Users |-> [buttons |-> {}, ids |-> {}]]
        /\ collected = [v \in Users |-> EmptyDict]
        /\ last = Step(IF flow = "log" THEN "handle_payer"
                       ELSE "handle_edit_payer_selection", u, "", 0, "done",
                       NoMail)
        /\ view = NoView

NextSplit ==
    \/ \E u \in Users : handle_split(u)
    \/ \E u \in Users : handle_custom_split(u)
    \/ \E u \in Users : handle_edit_split_selection(u)
    \/ \E u \in Users : handle_edit_custom_split_input(u)

SpecSplit == InitSplit /\ [][NextSplit]_vars

\* user u is at the split step of one of the two conversations
AtSplit(u) ==
    \/ logState[u] = SPLIT /\ {"amount", "payer"} \subseteq DOMAIN user_data[u]
    \/ /\ editState[u] = EDIT_SPLIT
       /\ {"new_amount", "new_payer"} \subseteq DOMAIN user_data[u]

SplitTotal(u) ==
    IF logState[u] = SPLIT THEN user_data[u]["amount"]
    ELSE user_data[u]["new_amount"]

SplitPayer(u) ==
    IF logState[u] = SPLIT THEN user_data[u]["payer"]
    ELSE user_data[u]["new_payer"]

\* the shares the logging step leaves in user_data for handle_description
\* to store, and the shares the edit step writes to the entry's row, are
\* the same, and the two steps have the same outcome
SameShares(L, E) ==
    /\ L.outcome = E.outcome
    /\ L.outcome = "done" =>
        /\ E.rows[1]["Mabel Share"] = L.ud["mabel_share"]
        /\ E.rows[1]["Sister Share"] = L.ud["sister_share"]
        /\ E.rows[1]["Amount"] = L.ud["amount"]
        /\ E.rows[1]["Paid By"] = L.ud["payer"]

\* C27: from sessions that hold the same total and payer, the equal split
\* of the edit conversation writes the shares the logging conversation
\* keeps for storing, and for every text typed as the other person's share
\* the custom split of the edit conversation accepts it exactly when the
\* logging one does and writes the same shares; a number is accepted
\* exactly when 0 <= other_amount <= total.
C27_SameSplitFunction ==
    \A u \in Users : AtSplit(u) =>
        LET total == SplitTotal(u)
            payer == SplitPayer(u)
            log == LogSession(total, payer)
            edit == EditSession(total, payer)
            logc == handle_split_out(log, sheet, "split_custom")
            editc == handle_edit_split_selection_out(edit, sheet,
                                                     "edit_split_custom", 0)
        IN  /\ SameShares(handle_split_out(log, sheet, "split_equal"),
                          handle_edit_split_selection_out(
                              edit, sheet, "edit_split_equal", 0))
            /\ logc.outcome = "done" /\ editc.outcome = "done"
            /\ logc.state = SPLIT /\ editc.state = EDIT_SPLIT
            /\ \A text \in ShareTexts :
                LET L == handle_custom_split_out(logc.ud, sheet, text)
                    E == handle_edit_custom_split_input_out(editc.ud, sheet,
                                                            text, 0)
                IN  /\ SameShares(L, E)
                    /\ (text.k = "num" /\ NaN \notin {text.n, total}) =>
                        (L.outcome = "done"
                            <=> (0 <= text.n /\ text.n <= total))
                    /\ L.outcome \in {"done", "reprompt"}

\* Jade, who is to pay one dollar and a half, waits at the custom split of
\* the edit conversation, and the entry still holds its stored shares
C27_Witness ==
    /\ editState[JadeId] = EDIT_SPLIT
    /\ last.op = "handle_edit_split_selection"
    /\ last.data = "edit_split_custom"
    /\ user_data[JadeId]["new_amount"] = 3
    /\ user_data[JadeId]["new_payer"] = "Jade"
    /\ user_data[JadeId]["edit_other_person"] = "Mabel"
    /\ sheet = <<SeedExpense>>

----------------------------------------------------------------------------
(* The read operations of ExpenseTracker among its write operations *)

InitStore ==
    /\ sheet \in UNION {[1..n -> LookupRows
                                    \cup {[SeedTracking EXCEPT !["Date"] = 1]}] :
                          n \in 0..MaxRows}
    /\ Idle

\* a variant of get_recent_entries that sorts the stored rows in place
apply_get_recent_entries_in_place ==
    /\ view' = [op |-> "get_recent_entries", t |-> now,
                result |-> get_recent_entries(sheet, RecentLimit)]
    /\ sheet' = sort_loop(sheet, <<>>)
    /\ UNCHANGED <<now, logState, setState, editState, user_data,
                   shown, collected, last>>

\* show_edit_menu computes tracker.get_recent_entries(10)
apply_get_recent_entries ==
    /\ view' = [op |-> "get_recent_entries", t |-> now,
                result |-> get_recent_entries(sheet, RecentLimit)]
    /\ UNCHANGED <<sheet, now, logState, setState, editState, user_data,
                   shown, collected, last>>

\* handle_edit_selection computes tracker.get_entry_by_id(entry_id)
apply_get_entry_by_id ==
    \E entry_id \in LookupIds :
        /\ view' = [op |-> "get_entry_by_id", t |-> now,
                    result |-> [entry_id |-> entry_id,
                                entry |-> get_entry_by_id(sheet, entry_id)]]
        /\ UNCHANGED <<sheet, now, logState, setState, editState, user_data,
                       shown, collected, last>>

NextStore ==
    \/ Tick
    \/ apply_get_summary
    \/ apply_get_next_due_dates
    \/ apply_get_recent_entries
    \/ apply_get_entry_by_id
    \/ apply_update_entry
    \/ apply_delete_entry

SpecStore == InitStore /\ [][NextStore]_vars

ReadOps ==
    {"get_summary", "get_next_due_dates", "get_recent_entries",
     "get_entry_by_id"}

----------------------------------------------------------------------------
(* The order of the steps of the expense conversation, checked under SpecLog *)

\* the handlers of the expense conversation with the state each is
\* registered under and the state it goes on to when it accepts its input
LogOrder ==
    [start_expense_logging |-> <<END, {DATE}>>,
     handle_date |-> <<DATE, {AMOUNT, DESCRIPTION}>>,
     handle_amount |-> <<AMOUNT, {PAYER}>>,
     handle_payer |-> <<PAYER, {SPLIT}>>,
     handle_split |-> <<SPLIT, {SPLIT, DESCRIPTION}>>,
     handle_custom_split |-> <<SPLIT, {DESCRIPTION}>>,
     handle_description |-> <<DESCRIPTION, {END}>>]

\* the step is one of user u that changed something u can observe
StepOf(u) == last'.user = u /\ <<logState', user_data', sheet', last'>> # <<logState, user_data, sheet, last>>

----------------------------------------------------------------------------
(* The steps that write to the store, and the reads, when the store fails *)

\* sessions that wait at a step that writes: the conversation states with
\* user_data and the buttons shown, as the steps before leave them
OutageSessions ==
    LET At(log, set, edit, ud, buttons) ==
            [log |-> log, set |-> set, edit |-> edit, ud |-> ud,
             buttons |-> buttons]
        editing == ("editing_id" :> SeedExpense["ID"])
                   @@ ("editing_entry" :> EntryKept(SeedExpense))
    IN  {At(DESCRIPTION, END, END,
            LogSession(2, "Mabel") @@ ("mabel_share" :> 1)
            @@ ("sister_share" :> 1), {}),
         At(DESCRIPTION, END, END,
            start_expense_logging_out(EmptyDict, <<>>, "log_vaccination").ud
            @@ ("date" :> 0), {}),
         At(END, SETTLEMENT_AMOUNT, END,
            handle_settlement_start_out(EmptyDict, <<>>,
                                        "settle_jade_mabel").ud, {}),
         At(END, END, EDIT_CHOICE, editing,
            FieldButtons("Vet Visit") \cup NewPayerButtons),
         At(END, END, EDIT_VALUE, editing @@ ("editing_field" :> "date"), {}),
         At(END, END, EDIT_VALUE,
            editing @@ ("editing_field" :> "description"), {}),
         At(END, END, EDIT_PAYER,
            editing @@ ("editing_field" :> "amount") @@ ("new_amount" :> 0),
            {}),
         At(END, END, EDIT_SPLIT, EditSession(2, "Jade"), {})}

InitOutage ==
    \E u \in Users, s \in OutageSessions :
        /\ sheet = <<SeedExpense>>
        /\ now = 0
        /\ logState = [v \in Users |-> IF v = u THEN s.log ELSE END]
        /\ setState = [v \in Users |-> IF v = u THEN s.set ELSE END]
        /\ editState = [v \in Users |-> IF v = u THEN s.edit ELSE END]
        /\ user_data = [v \in Users |-> IF v = u THEN s.ud ELSE EmptyDict]
        /\ shown = [v \in Users |->
                       [buttons |-> IF v = u THEN s.buttons ELSE {},
                        ids |-> {}]]
        /\ collected = [v \in Users |-> EmptyDict]
        /\ last = Step("start", u, "", 0, "done", NoMail)
        /\ view = NoView

\* a read operation without a sheet connection, or whose store call raises:
\* get_summary, get_next_due_dates and get_entry_by_id return {},
\* get_recent_entries returns []
apply_read_unavailable ==
    \E op \in {"get_summary", "get_next_due_dates", "get_recent_entries",
                "get_entry_by_id"} :
        /\ view' = [op |-> op, t |-> now, store_ok |-> FALSE,
                    result |-> IF op = "get_recent_entries" THEN <<>>
                               ELSE EmptyDict]
        /\ UNCHANGED <<sheet, now, logState, setState, editState, user_data,
                       shown, collected, last>>

NextOutage ==
    \/ apply_read_unavailable
    \/ \E u \in Users : handle_description(u)
    \/ \E u \in Users : handle_settlement_amount(u)
    \/ \E u \in Users : handle_edit_field_choice(u)
    \/ \E u \in Users : handle_edit_value_input(u) /\ Numbered(u)
    \/ \E u \in Users : handle_edit_payer_selection(u)
    \/ \E u \in Users : handle_edit_split_selection(u)
    \/ \E u \in Users : handle_edit_custom_split_input(u) /\ Numbered(u)

SpecOutage == InitOutage /\ [][NextOutage]_vars

\* the conversation state of user u that handler op belongs to
StateOf(op, u, log, set, edit) ==
    IF op = "handle_description" THEN log[u]
    ELSE IF op = "handle_settlement_amount" THEN set[u]
    ELSE edit[u]

\* with the store failing, each write operation of the tracker returns
\* failure; the appends and the delete leave the rows, and update_entry
\* writes no cell from the failing one on
WritesReportFailure ==
    /\ \A u \in Users, category \in {"Vet Visit", "Vaccination"} :
        \A mail_ok \in BOOLEAN :
            LET r == add_expense(sheet, now, 0, category, 2, "Mabel", "chow",
                                 u, <<1>>, <<1>>, FALSE, mail_ok)
            IN  ~r.ok /\ r.rows = sheet /\ r.mail = NoMail
    /\ \A u \in Users, from_user \in Names :
            LET r == add_settlement(sheet, now, from_user, Other(from_user),
                                    1, u, FALSE)
            IN  ~r.ok /\ r.rows = sheet
    /\ \A i \in 1..Len(sheet) :
            LET r == delete_entry(sheet, sheet[i]["ID"], FALSE)
            IN  ~r.ok /\ r.rows = sheet
    /\ \A i \in 1..Len(sheet), fail \in 1..4 :
            LET updates == AmountUpdates(4, "Jade", 3, 1)
                first == FindRow(sheet, sheet[i]["ID"])
                r == update_entry(sheet, sheet[i]["ID"], updates, fail)
            IN  /\ ~r.ok
                /\ Len(r.rows) = Len(sheet)
                /\ \A k \in 1..Len(sheet) : k # first => r.rows[k] = sheet[k]
                /\ \A j \in fail..4 :
                        r.rows[first][updates[j][1]] = sheet[first][updates[j][1]]
                /\ fail = 1 => r.rows = sheet

----------------------------------------------------------------------------
(* The two balances of the summary, checked under SpecEdit *)

\* C31: in every stored state the balances get_summary computes are
\* opposite: balances[Mabel] + balances[Jade] = 0.
C31_BalancesOpposite ==
    LET balances == get_summary(sheet).balances
    IN  Plus(balances["Mabel"], balances["Jade"]) = 0

----------------------------------------------------------------------------
(* update_entry as a whole, checked under SpecOutage *)

\* the steps of the edit conversation that call update_entry
UpdateOps ==
    {"handle_edit_field_choice", "handle_edit_value_input",
     "handle_edit_payer_selection", "handle_edit_split_selection",
     "handle_edit_custom_split_input"}

\* C32: when a step of the edit conversation reports that update_entry
\* failed, no cell of any stored row has changed.
C32_UpdateAllOrNothing ==
    [][(/\ last'.op \in UpdateOps /\ last'.outcome = "failed"
        /\ editState[last'.user] # END)
            => sheet' = sheet]_vars

----------------------------------------------------------------------------
(* A group chat of Mabel, the bot and a member who is not authorized: the
   messages the bot posts for Mabel, with their buttons, are there for every
   member to press *)

\* a Telegram user id that is not a key of AUTHORIZED_USERS
GuestId == 1

InitGuest ==
    /\ sheet = <<SeedExpense>>
    /\ now = 0
    /\ logState = [v \in Users \cup {GuestId} |-> END]
    /\ setState = [v \in Users \cup {GuestId} |-> END]
    /\ editState = [v \in Users \cup {GuestId} |-> END]
    /\ user_data = [v \in Users \cup {GuestId} |-> EmptyDict]
    /\ shown = [v \in Users \cup {GuestId} |-> [buttons |-> {}, ids |-> {}]]
    /\ collected = [v \in Users \cup {GuestId} |-> EmptyDict]
    /\ last = Step("start", MabelId, "", 0, "done", NoMail)
    /\ view = NoView

\* the handlers that look the user up in AUTHORIZED_USERS answer the guest
\* "Not authorized" and do nothing else: start, show_menu (check_auth),
\* handle_menu_buttons and start_expense_logging, one input for each
not_authorized ==
    \E data \in {"/start", "/menu", "view_summary", "log_vet"} :
        /\ GuestId \notin DOMAIN AUTHORIZED_USERS
        /\ last' = Step("not_authorized", GuestId, data, 0, "refused", NoMail)
        /\ UNCHANGED <<sheet, now, logState, setState, editState, user_data,
                       shown, collected, view>>

\* the guest presses a settle_ button under a summary the bot posted: the
\* settlement conversation's entry point takes the callback
guest_settlement_start ==
    \E data \in (UNION {shown[v].buttons : v \in Users})
                 \cap {"settle_jade_mabel", "settle_mabel_jade"} :
        SetStep(GuestId,
                handle_settlement_start_out(user_data[GuestId], sheet, data),
                "handle_settlement_start", data, 0)

\* the guest presses an entry's button under an edit list the bot posted:
\* the edit conversation's entry point takes the callback
guest_edit_selection ==
    \E entry_id \in UNION {shown[v].ids : v \in Users} :
        EditStep(GuestId,
                 handle_edit_selection_out(user_data[GuestId], sheet,
                                           entry_id),
                 "handle_edit_selection", "edit_id", 0,
                 LET entry == get_entry_by_id(sheet, entry_id)
                 IN  IF DOMAIN entry = {} THEN {}
                     ELSE FieldButtons(entry["Category"]))

NextGuest ==
    \/ show_summary(MabelId)
    \/ show_edit_menu(MabelId)
    \/ not_authorized
    \/ guest_settlement_start
    \/ handle_settlement_amount(GuestId)
    \/ guest_edit_selection
    \/ handle_edit_field_choice(GuestId)

SpecGuest == InitGuest /\ [][NextGuest]_vars

\* C33: no step taken for a user whose id is not in AUTHORIZED_USERS
\* changes the stored rows.
C33_OnlyAuthorizedUsersWrite ==
    [][last'.user \notin DOMAIN AUTHORIZED_USERS => sheet' = sheet]_vars

----------------------------------------------------------------------------
(* The calendar mail and the scheduler, checked under SpecMail *)

\* C34: when a step has called send_calendar_email, the next_due_date it
\* passed is the next_date get_next_due_dates reports for that category
\* over the rows stored after the step.
C34_MailAgreesWithScheduler ==
    [][last'.mail # NoMail =>
        LET mail == last'.mail[1]
            due == get_next_due_dates(sheet', now')
        IN  /\ mail.event_type \in DOMAIN due
            /\ due[mail.event_type].next_date = mail.next_due_date]_vars

----------------------------------------------------------------------------
(* Tracking entries under the edit conversation, checked under
   SpecEditSettled *)

\* C35: every stored Vaccination or Blood Test row has Amount 0, both
\* shares 0 and the Paid By it was stored with, "N/A".
C35_TrackingStaysTracking ==
    \A i \in 1..Len(sheet) :
        sheet[i]["Category"] \in Recurring =>
            /\ sheet[i]["Amount"] = 0
            /\ sheet[i]["Mabel Share"] = 0 /\ sheet[i]["Sister Share"] = 0
            /\ sheet[i]["Paid By"] = "N/A"

----------------------------------------------------------------------------
(* The session of a running expense conversation, checked under SpecLog *)

\* C36: while a user's expense conversation is in AMOUNT, PAYER, SPLIT or
\* DESCRIPTION, the user's user_data holds the date and the category the
\* conversation collected.
C36_SessionKept ==
    \A u \in Users :
        logState[u] \in {AMOUNT, PAYER, SPLIT, DESCRIPTION} =>
            /\ {"date", "category"} \subseteq DOMAIN user_data[u]
            /\ {"date", "category"} \subseteq DOMAIN collected[u]
            /\ user_data[u]["date"] = collected[u]["date"]
            /\ user_data[u]["category"] = collected[u]["category"]

----------------------------------------------------------------------------
(* One user has selected the entry X for editing, the other user deletes   *)
(* rows before the first commits.  The handlers run one at a time          *)
(* (run_polling without concurrent_updates, blocking store calls), so an   *)
(* interleaving is an order of whole handlers.                             *)

\* the sheets: two or three rows with different IDs; X is the last row's
\* ID, so that a delete of any other row moves the row of X up
RaceSheets ==
    {s \in UNION {[1..n -> LookupRows] : n \in 2..MaxStored} :
        \A i, j \in 1..Len(s) : i # j => s[i] # s[j]}

\* the sessions of the editing user: past handle_edit_selection of X, at
\* the field buttons, at the payer buttons or asked for the new date
RaceSessions(rows) ==
    LET x == rows[Len(rows)]
        selected == handle_edit_selection_out(EmptyDict, rows, x["ID"]).ud
        At(edit, ud, buttons) == [edit |-> edit, ud |-> ud, buttons |-> buttons]
    IN  {At(EDIT_CHOICE, selected, FieldButtons(x["Category"])),
         At(EDIT_CHOICE,
            handle_edit_field_choice_out(selected, rows, "edit_payer", 0).ud,
            FieldButtons(x["Category"]) \cup NewPayerButtons),
         At(EDIT_VALUE,
            handle_edit_field_choice_out(selected, rows, "edit_date", 0).ud,
            FieldButtons(x["Category"]))}

\* the other user has the edit menu on the screen
InitRace ==
    \E a \in Users, rows \in RaceSheets :
        \E s \in RaceSessions(rows) :
            /\ sheet = rows
            /\ now = 0
            /\ logState = [v \in Users |-> END]
            /\ setState = [v \in Users |-> END]
            /\ editState = [v \in Users |-> IF v = a THEN s.edit ELSE END]
            /\ user_data = [v \in Users |-> IF v = a THEN s.ud ELSE EmptyDict]
            /\ shown = [v \in Users |->
                           IF v = a THEN [buttons |-> s.buttons, ids |-> {}]
                           ELSE [buttons |-> {},
                                 ids |-> {rows[i]["ID"] : i \in 1..Len(rows)}]]
            /\ collected = [v \in Users |-> EmptyDict]
            /\ last = Step("start", a, "", 0, "done", NoMail)
            /\ view = NoView

\* the user with the edit menu selects and deletes; the user who selected X
\* goes on to the commit
NextRace ==
    \/ \E u \in Users : handle_edit_selection(u)
    \/ \E u \in Users :
        /\ shown[u].ids # {}
        /\ handle_edit_field_choice(u)
        /\ last'.data = "delete_confirm"
    \/ \E u \in Users :
        /\ shown[u].ids = {}
        /\ handle_edit_field_choice(u)
        /\ last'.data \in {"edit_date", "edit_payer"} \cup NewPayerButtons
    \/ \E u \in Users : shown[u].ids = {} /\ handle_edit_value_input(u)

SpecRace == InitRace /\ [][NextRace]_vars

\* the steps of the edit conversation that call update_entry
IsCommit ==
    /\ last'.op \in UpdateOps
    /\ last'.data # "delete_confirm"
    /\ editState[last'.user] # END
    /\ editState'[last'.user] = END
    /\ Has(user_data[last'.user], "editing_id")

\* C37: a commit of the edit of X, with rows deleted by the other user
\* since X was selected, writes the first row whose ID is X and no other
\* row, or finds no row with the ID X, writes nothing and reports the
\* failure.
C37_CommitHitsSelectedRow ==
    [][IsCommit =>
        LET X == user_data[last'.user]["editing_id"]
            row == FindRow(sheet, X)
        IN  /\ Len(sheet') = Len(sheet)
            /\ \A i \in 1..Len(sheet) :
                    sheet'[i] # sheet[i] =>
                        i = row /\ sheet[i]["ID"] = X /\ sheet'[i]["ID"] = X
            /\ last'.outcome = "done" => row # 0
            /\ row = 0 => sheet' = sheet /\ last'.outcome = "failed"]_vars

\* Mabel selected Jade's expense in the second row, Jade deleted the first
\* row, and Mabel's payer edit is in the row that moved up
C37_Witness ==
    /\ last.user = MabelId
    /\ last.op = "handle_edit_field_choice"
    /\ last.data = "new_payer_Mabel"
    /\ last.outcome = "done"
    /\ sheet = <<[JadeExpense EXCEPT !["Paid By"] = "Mabel"]>>

----------------------------------------------------------------------------
(* get_recent_entries with any limit, on sheets whose rows carry a Date of *)
(* every kind: one that does not parse, a digits-only cell, days before    *)
(* and on 1900-01-01, today and tomorrow                                   *)

RecentDates == {NoDate, NumberCell, Day1900 - 1, Day1900} \cup 0..MaxStoredDate

RecentRows ==
    {SeedExpense} \cup {[SeedTracking EXCEPT !["Date"] = d] : d \in RecentDates}

InitRecent ==
    /\ sheet \in UNION {[1..n -> RecentRows] : n \in 0..MaxStored}
    /\ Idle

apply_get_recent_entries_limit ==
    \E limit \in 1..MaxStored :
        /\ view' = [op |-> "get_recent_entries", t |-> now,
                    result |-> [limit |-> limit,
                                entries |-> get_recent_entries(sheet, limit)]]
        /\ UNCHANGED <<sheet, now, logState, setState, editState, user_data,
                       shown, collected, last>>

NextRecent == apply_get_recent_entries_limit

SpecRecent == InitRecent /\ [][NextRecent]_vars

\* record a may stand after record b in the list: a has no valid Date, or
\* both have one and a's is not the later
MayFollow(a, b) ==
    \/ ~ParsesAsDate(a["Date"])
    \/ ParsesAsDate(b["Date"]) /\ a["Date"] <= b["Date"]

\* entries are rows of the sheet, each taken once, and no row left out may
\* not follow the rows taken
LatestOf(entries, rows) ==
    \E f \in [1..Len(entries) -> 1..Len(rows)] :
        /\ \A i, j \in 1..Len(entries) : i # j => f[i] # f[j]
        /\ \A i \in 1..Len(entries) : entries[i] = rows[f[i]]
        /\ \A k \in 1..Len(rows) :
                (\A i \in 1..Len(entries) : f[i] # k) =>
                    \A i \in 1..Len(entries) : MayFollow(rows[k], entries[i])

\* C38: get_recent_entries(limit) returns min(limit, number of rows) rows
\* of the sheet; no row left out has a later Date than a row returned; the
\* rows are listed with the latest Date first, and a row whose Date is
\* empty or does not parse stands after every row with a valid Date.
C38_RecentByDate ==
    (view # NoView /\ view.op = "get_recent_entries") =>
        LET limit == view.result.limit
            entries == view.result.entries
        IN  /\ Len(entries) <= limit
            /\ Len(entries) = IF Len(sheet) < limit THEN Len(sheet) ELSE limit
            /\ LatestOf(entries, sheet)
            /\ \A i, j \in 1..Len(entries) :
                    i < j => MayFollow(entries[j], entries[i])

====
